---- MODULE Spec2Model ----
(***************************************************************************)
(* Model of the interactive review run: main (src/src/index.ts), the Fork   *)
(* variant of createSandbox/close (src/unnamed/part_002), setupSandbox      *)
(* (src/src/sandbox.ts), runReview (src/src/agent.ts, lines 16-232),        *)
(* confirmAction (src/src/github.ts, lines 253-261), ghFetch and            *)
(* postReviewToGitHub (src/src/github.ts, lines 33-44 and 128-188) and      *)
(* buildSystemPrompt (src/src/message.ts, lines 11-25).                     *)
(*                                                                         *)
(* The agent stream, the human at the prompt, the platform and the GitHub   *)
(* API are the environment: their outputs are chosen with \E from bounded   *)
(* sets.  The stream is delivered one message at a time in arrival order    *)
(* (chunks and their node entries flattened; an update without messages     *)
(* contributes nothing, agent.ts line 124).                                 *)
(***************************************************************************)
EXTENDS Integers, Sequences, FiniteSets, TLC

\* ------------------------------------------------------------------------
\* Bounds of the model
\* ------------------------------------------------------------------------
MaxStream == 2          \* messages of a stream in the stream-loop runs
MaxRunStream == 1       \* messages of the stream in a full run of main
MaxCalls == 2           \* tool calls carried by one AI message
MaxComments == 2        \* comments carried by one review
MaxLine == 2            \* line numbers range over 1..MaxLine
MaxHttpCalls == 2       \* calls made in a run of the GitHub client alone

\* ------------------------------------------------------------------------
\* Data: ReviewComment and Review (src/src/types.ts)
\* ------------------------------------------------------------------------
\* start_line is optional; NoStartLine stands for an omitted start_line.
NoStartLine == 0

Lines == 1..MaxLine

Verdicts == {"comment", "approve", "request_changes"}

ReviewComment ==
  [path : {"src/a.ts"}, line : Lines, start_line : {NoStartLine} \cup Lines,
   body : {"fix this"}]

RECURSIVE SeqsUpTo(_, _)
SeqsUpTo(S, n) ==
  IF n = 0 THEN {<<>>}
  ELSE LET shorter == SeqsUpTo(S, n - 1)
       IN  shorter \cup {Append(s, x) : s \in {t \in shorter : Len(t) = n - 1}, x \in S}

ReviewsUpTo(n) ==
  [summary : {"Thanks!"}, verdict : Verdicts, comments : SeqsUpTo(ReviewComment, n)]

Review == ReviewsUpTo(MaxComments)

\* The reviews the agent proposes in the stream of a full run: one per
\* verdict, without line comments (the approval-gate runs start from every
\* review of Review).
StreamReviews == {r \in Review : r.comments = <<>>}

\* `Review | null`: the empty tuple is null, <<r>> holds the review r.
Null == <<>>
Some(r) == <<r>>

\* ------------------------------------------------------------------------
\* Data: streamed messages (agent.ts lines 122-189)
\* ------------------------------------------------------------------------
\* Message ids; "" stands for a missing (or empty, hence falsy) id.
NoId == ""
MessageIds == {"m1", "m2"}

ToolCall ==
  [name : {"submit_review"}, args : StreamReviews]
    \cup [name : {"write_todos", "execute"}, args : {Null}]

\* An AI message carries tool calls and/or text; a tool message carries the
\* name of the tool whose result it is.
Message ==
  [id : MessageIds \cup {NoId}, type : {"ai"},
   tool_calls : SeqsUpTo(ToolCall, MaxCalls) \ {<<>>}, name : {""}, content : {""}]
    \cup [id : MessageIds \cup {NoId}, type : {"ai"},
          tool_calls : {<<>>}, name : {""}, content : {"", "text"}]
    \cup [id : MessageIds \cup {NoId}, type : {"tool"},
          tool_calls : {<<>>}, name : {"write_todos", "execute"}, content : {"out"}]

\* ------------------------------------------------------------------------
\* Data: the change request (types.ts PRData) and HTTP statuses
\* ------------------------------------------------------------------------
\* Of PRData the model keeps what setupSandbox and buildSystemPrompt read:
\* head.repo and base.repo stand for head.repo.full_name and
\* base.repo.full_name.
NoPR == <<>>

BaseRepo == "langchain-ai/langchainjs"
ForkRepo == "contributor/langchainjs"

SameOriginPR ==
  [head |-> [repo |-> BaseRepo, ref |-> "fix/parser"],
   base |-> [repo |-> BaseRepo, ref |-> "main"]]

\* A same-origin change request, and two from a fork: one from a topic
\* branch and one from the fork's own main branch.
PRData ==
  {SameOriginPR,
   [head |-> [repo |-> ForkRepo, ref |-> "fix/parser"],
    base |-> [repo |-> BaseRepo, ref |-> "main"]],
   [head |-> [repo |-> ForkRepo, ref |-> "main"],
    base |-> [repo |-> BaseRepo, ref |-> "main"]]}

\* The statuses GitHub answers with: success, the two access-denied
\* statuses ghFetch retries on, and another failure.
Status == {200, 401, 403, 404}

\* Response.ok
Ok(status) == status \in 200..299

NoPrompt == <<>>

VARIABLES
  env,                  \* process.env: which credentials are set
  pr,                   \* the change request read by fetchPR (NoPR before)
  http,                 \* calls of ghFetch / postReviewToGitHub, with their requests
  execLog,              \* git and pnpm steps setupSandbox ran in the session
  systemPrompt,         \* the system prompt the agent was created with
  pc,                   \* position of main / runReview
  fetches,              \* change-request reads issued by main
  volume,               \* the run's Fork: "none" | "created" | "deleted"
  session,              \* the run's Session: "none" | "live" | "closed"
  closeCalls,           \* number of times close() was invoked
  closeLog,             \* platform calls made by close(), in order
  depsInstalled,        \* result of setupSandbox
  seenMessageIds,       \* runReview: ids already displayed
  pendingReview,        \* runReview: captured submit_review arguments
  rendered,             \* lines written to the terminal by runReview
  delivered,            \* number of messages the stream has delivered
  arrived,              \* per id: messages delivered with that id
  processed,            \* per id: messages that passed the dedup check
  firstCaptured,        \* arguments of the first submit_review processed
  streamEnded,          \* the stream loop ran to the end of the stream
  displayed,            \* reviews passed to displayReview, in order
  prompts,              \* number of approval prompts shown
  answer,               \* what the human did at the prompt
  postCalls,            \* calls of postReviewToGitHub
  requests,             \* bodies of the POST requests sent to GitHub
  result,               \* what runReview returned
  outcome,              \* what main reported under DONE
  err,                  \* the error currently propagating, if any
  exitCode,             \* process exit status (meaningful once pc = "exit")
  volumeSlug,           \* slug of the run's Fork (NoSlug before createSandbox)
  closeMessages,        \* log lines written by close()
  now,                  \* the reading Date.now() returns
  snapshot,             \* the BaseImage published under SNAPSHOT_SLUG
  forks,                \* slugs of the "review-tmp" volumes the platform holds
  typed,                \* text-prompt variant: the line the human typed
  textAnswer,           \* text-prompt variant: what prompt() resolved with
  inputMessage,         \* the message handed to the stream loop's body
  runSlug,              \* concurrent runs: the Fork slug each run computed
  runState,             \* concurrent runs: position of each run
  runRoot,              \* concurrent runs: the volume each Session booted from
  rpc,                  \* update-volume: position of main
  runNo,                \* update-volume: number of the current run
  devVolume,            \* update-volume: the persistent volume VOLUME_SLUG
  repo,                 \* update-volume: "fresh" | "exists" (is /data/repo/.git there)
  tree,                 \* update-volume: what git status reports in /data/repo
  buildEffect,          \* what the build of the current upstream source leaves behind
  buildSandbox,         \* update-volume: "none" | "live" | "killed"
  dirtyFiles,           \* update-volume: output of the status check after the build
  testsPassed,          \* update-volume: "none" | "passed" | "failed"
  attempt,              \* update-volume: attempts made at deleting the snapshot
  waits,                \* update-volume: seconds waited between attempts
  leftover,             \* update-volume: leftover Forks still to be visited
  refreshLog,           \* update-volume: platform calls of step 9, in order
  refreshWarnings,      \* update-volume: warnings logged
  rerr,                 \* update-volume: the error main() rejected with
  rexit                 \* update-volume: exit status ("none" while running)

vars ==
  <<env, pr, http, execLog, systemPrompt, pc, fetches, volume, session, closeCalls, closeLog, depsInstalled,
    seenMessageIds, pendingReview, rendered, delivered, arrived, processed,
    firstCaptured, streamEnded, displayed, prompts,
    answer, postCalls, requests, result, outcome, err, exitCode,
    volumeSlug, closeMessages, now, snapshot, forks, typed, textAnswer,
    inputMessage, runSlug, runState, runRoot, rpc, runNo, devVolume, repo,
    tree, buildEffect, buildSandbox, dirtyFiles, testsPassed, attempt, waits,
    leftover, refreshLog, refreshWarnings, rerr, rexit>>

sandboxVars == <<volume, session, closeCalls, closeLog, volumeSlug, closeMessages>>
platformVars == <<now, snapshot, forks>>
inputVars == <<typed, textAnswer, inputMessage>>
runsVars == <<runSlug, runState, runRoot>>
refreshVars ==
  <<rpc, runNo, devVolume, repo, tree, buildEffect, buildSandbox, dirtyFiles,
    testsPassed, attempt, waits, leftover, refreshLog, refreshWarnings, rerr,
    rexit>>
\* What an interactive run never touches.
otherVars == <<inputVars, runsVars, refreshVars>>
streamVars ==
  <<seenMessageIds, pendingReview, rendered, delivered, arrived, processed,
    firstCaptured, streamEnded>>
gateVars == <<displayed, prompts, answer, postCalls, requests>>

NoError == "none"

\* The snapshot every Fork is made from (part_002 line 17, part_006 line 22).
\* A slug is kept as the tuple of its parts.
SNAPSHOT_SLUG == <<"langchainjs-dev-snapshot">>

NoSlug == <<>>

\* What git status can report in /data/repo: tracked files modified in the
\* working tree, untracked files, changes staged in the index.
Dirt == {"modified", "untracked", "staged"}

\* A BaseImage as update-volume publishes it: the state of the source tree
\* it holds and the run that made it (0: made before the runs looked at).
Snapshot(t, n) == Some([tree |-> t, run |-> n])

\* An interactive run starts with a BaseImage on the platform.
InitPlatform ==
  /\ now = 1
  /\ snapshot = Snapshot({}, 0)
  /\ forks = {}

\* No text prompt, no separate message.
InitInputs ==
  /\ typed = <<>>
  /\ textAnswer = Null
  /\ inputMessage = Null

\* No other run.
InitRuns ==
  /\ runSlug = <<>>
  /\ runState = <<>>
  /\ runRoot = <<>>

\* update-volume is not running.
InitNoRefresh ==
  /\ rpc = "idle"
  /\ runNo = 0
  /\ devVolume = "bootable"
  /\ repo = "exists"
  /\ tree = {}
  /\ buildEffect = {}
  /\ buildSandbox = "none"
  /\ dirtyFiles = {}
  /\ testsPassed = "none"
  /\ attempt = 0
  /\ waits = <<>>
  /\ leftover = {}
  /\ refreshLog = <<>>
  /\ refreshWarnings = <<>>
  /\ rerr = NoError
  /\ rexit = "none"

Init ==
  /\ env \in [ANTHROPIC_API_KEY : BOOLEAN, GITHUB_TOKEN : BOOLEAN]
  /\ pr = NoPR
  /\ http = <<>>
  /\ execLog = <<>>
  /\ systemPrompt = NoPrompt
  /\ pc = "main"
  /\ fetches = 0
  /\ volume = "none"
  /\ session = "none"
  /\ closeCalls = 0
  /\ closeLog = <<>>
  /\ depsInstalled = FALSE
  /\ seenMessageIds = {}
  /\ pendingReview = Null
  /\ rendered = <<>>
  /\ delivered = 0
  /\ arrived = [i \in MessageIds \cup {NoId} |-> 0]
  /\ processed = [i \in MessageIds \cup {NoId} |-> 0]
  /\ firstCaptured = Null
  /\ streamEnded = FALSE
  /\ displayed = <<>>
  /\ prompts = 0
  /\ answer = "none"
  /\ postCalls = 0
  /\ requests = <<>>
  /\ result = "none"
  /\ outcome = "none"
  /\ err = NoError
  /\ exitCode = 0
  /\ volumeSlug = NoSlug
  /\ closeMessages = <<>>
  /\ InitPlatform
  /\ InitInputs
  /\ InitRuns
  /\ InitNoRefresh

\* ------------------------------------------------------------------------
\* main, before the sandbox exists (index.ts lines 27-137)
\* ------------------------------------------------------------------------
\* index.ts lines 33-45: a missing credential ends the process with status 1.
\* Variant: the check of GITHUB_TOKEN (lines 40-45) is missing.
EnvValidAnthropicOnly(e) == e.ANTHROPIC_API_KEY

EnvValid(e) == e.ANTHROPIC_API_KEY /\ e.GITHUB_TOKEN

ValidateEnv ==
  /\ pc = "main"
  /\ IF EnvValid(env)
       THEN /\ pc' = "fetch"
            /\ UNCHANGED <<err, exitCode>>
       ELSE /\ pc' = "exit"
            /\ exitCode' = 1
            /\ UNCHANGED err
  /\ UNCHANGED <<otherVars, platformVars, env, pr, execLog, systemPrompt, http,
                 fetches, sandboxVars, depsInstalled, streamVars, gateVars,
                 result, outcome>>

\* github.ts lines 8-27: ghHeaders carries the Authorization header exactly
\* when a token is set; publicHeaders never does.
ghHeaders(token) == token
publicHeaders == FALSE

\* One HTTP request as GitHub sees it, with the status it answered.
Request(method, auth, status) ==
  [method |-> method, auth |-> auth, status |-> status]

\* ghFetch (github.ts lines 33-44).  first and second are the statuses
\* GitHub answers the first request and the retry with.  The result lists
\* the requests sent and tells which one's response is returned.
\* Variant: the retry is sent with ghHeaders() like the first request.
ghFetchRetryAuthenticated(token, first, second) ==
  LET res == Request("GET", ghHeaders(token), first)
  IN  IF (first = 403 \/ first = 401) /\ token
        THEN LET retry == Request("GET", ghHeaders(token), second)
             IN  [call |-> "read", requests |-> <<res, retry>>,
                  returned |-> IF Ok(second) THEN 2 ELSE 1]
        ELSE [call |-> "read", requests |-> <<res>>, returned |-> 1]

ghFetch(token, first, second) ==
  LET res == Request("GET", ghHeaders(token), first)
  IN  IF (first = 403 \/ first = 401) /\ token
        THEN LET retry == Request("GET", publicHeaders, second)
             IN  [call |-> "read", requests |-> <<res, retry>>,
                  returned |-> IF Ok(second) THEN 2 ELSE 1]
        ELSE [call |-> "read", requests |-> <<res>>, returned |-> 1]

\* The status of the response a call returned to its caller.
ReturnedStatus(call) == call.requests[call.returned].status

\* index.ts lines 47-137: the change-request reads, each through ghFetch
\* (github.ts lines 50-123); the model carries the first, fetchPR, whose
\* response is the change request.  A response that is not ok makes fetchPR
\* throw (github.ts lines 58-70) and reaches main().catch (index.ts lines
\* 171-174).
FetchPRData ==
  /\ pc = "fetch"
  /\ fetches' = fetches + 1
  /\ \E first \in Status, second \in Status :
       LET r == ghFetch(env.GITHUB_TOKEN, first, second)
       IN  /\ http' = Append(http, r)
           /\ IF Ok(ReturnedStatus(r))
                THEN /\ pr' \in PRData
                     /\ pc' = "createSandbox"
                     /\ UNCHANGED <<err, exitCode>>
                ELSE /\ pc' = "exit"
                     /\ err' = "fetch"
                     /\ exitCode' = 1
                     /\ UNCHANGED pr
  /\ UNCHANGED <<otherVars, platformVars, env, execLog, systemPrompt,
                 sandboxVars, depsInstalled, streamVars, gateVars,
                 result, outcome>>

\* ------------------------------------------------------------------------
\* createSandbox (part_002 lines 28-70) and setupSandbox (sandbox.ts 57-126)
\* ------------------------------------------------------------------------
\* part_002 line 36: the Fork's slug is made from the clock reading alone.
ForkSlug(t) == <<"review-tmp", t>>

\* createSandbox is awaited outside main's try block (index.ts line 140): a
\* failure goes straight to main().catch.
CreateSandbox ==
  /\ pc = "createSandbox"
  /\ \E o \in {"volumeFailed", "sessionFailed", "ok"} :
       /\ volumeSlug' = ForkSlug(now)
       /\ volume' = IF o = "volumeFailed" THEN "none" ELSE "created"
       /\ forks' = IF o = "volumeFailed" THEN forks
                                         ELSE forks \cup {ForkSlug(now)}
       /\ session' = IF o = "ok" THEN "live" ELSE "none"
       /\ IF o = "ok"
            THEN /\ pc' = "setupSandbox"
                 /\ UNCHANGED <<err, exitCode>>
            ELSE /\ pc' = "exit"
                 /\ err' = "createSandbox"
                 /\ exitCode' = 1
  /\ UNCHANGED <<otherVars, now, snapshot, env, pr, execLog, systemPrompt, http,
                 fetches, closeCalls, closeLog, closeMessages, depsInstalled,
                 streamVars, gateVars, result, outcome>>

\* sandbox.ts lines 62-63.
\* Variant: the head repository is never compared with the base repository
\* and every change request is set up as one from a fork.
isForkAlways(p) == TRUE

isFork(p) == p.head.repo # p.base.repo

\* Variant: the head ref is always taken from origin.
headRemoteAlwaysOrigin(p) == "origin"

headRemote(p) == IF isFork(p) THEN "pr-fork" ELSE "origin"

\* One git or pnpm step run inside the session: the remote and ref it names,
\* for a checkout the local branch it creates (git checkout -B branch
\* remote/ref), and whether the step itself succeeded.
Exec(op, remote, ref, branch, ok) ==
  [op |-> op, remote |-> remote, ref |-> ref, branch |-> branch, ok |-> ok]

\* What the session does with the commands of setupSandbox: whether the
\* remote registration, the two fetches, the checkout and the install
\* succeed, and whether the shell running the fetch command runs to its end
\* (it does not when the session kills it).
SetupOutcomes ==
  [remote : BOOLEAN, head : BOOLEAN, base : BOOLEAN, completed : BOOLEAN,
   checkout : BOOLEAN, install : BOOLEAN]

\* The memory allowance of the install run by setup (sandbox.ts line 116)
\* and of the retry the system prompt suggests (message.ts line 19).
SetupMaxOldSpace == 2560
RetryMaxOldSpace == 3584

\* sandbox.ts line 87: the fetch command is
\*   cd repoDir && git fetch <head> & git fetch origin <base> & wait
\* Both fetches are background jobs and the command's exit status is that of
\* `wait` without operands, which is 0 whatever the jobs' statuses were; the
\* status is non-zero only when the shell does not get to the end.
fetchExitCode(o) == IF o.completed THEN 0 ELSE 1

\* sandbox.ts lines 118-125: what setupSandbox does with the install's
\* result.
\* Variant: a failed install is raised like a failed checkout.
afterInstallThrows(ok) ==
  [threw |-> ~ok, depsInstalled |-> ok]

afterInstall(ok) ==
  [threw |-> FALSE, depsInstalled |-> ok]

\* setupSandbox (sandbox.ts lines 57-126) on the change request p when the
\* session answers the commands as o says.  The result tells whether it
\* threw, what it returned and the steps run (the two fetches run
\* concurrently; the log lists the head's first).
setupSandbox(p, o) ==
  LET remoteLog ==
        IF isFork(p)
          THEN <<Exec("remote", headRemote(p), "", "", o.remote)>>
          ELSE <<>>
      fetchLog ==
        remoteLog \o
          <<Exec("fetch", headRemote(p), p.head.ref, "", o.head /\ o.completed),
            Exec("fetch", "origin", p.base.ref, "", o.base /\ o.completed)>>
      checkoutLog ==
        Append(fetchLog,
               Exec("checkout", headRemote(p), p.head.ref, p.head.ref, o.checkout))
      installLog ==
        Append(checkoutLog, Exec("install", "", "", "", o.install))
  IN  IF isFork(p) /\ ~o.remote
        THEN [threw |-> TRUE, depsInstalled |-> FALSE, log |-> remoteLog]
      ELSE IF fetchExitCode(o) # 0
        THEN [threw |-> TRUE, depsInstalled |-> FALSE, log |-> fetchLog]
      ELSE IF ~o.checkout
        THEN [threw |-> TRUE, depsInstalled |-> FALSE, log |-> checkoutLog]
      ELSE [threw |-> afterInstall(o.install).threw,
            depsInstalled |-> afterInstall(o.install).depsInstalled,
            log |-> installLog]

\* index.ts line 143, inside the try block: setupSandbox either throws or
\* returns depsInstalled.
SetupSandbox ==
  /\ pc = "setupSandbox"
  /\ \E o \in SetupOutcomes :
       LET r == setupSandbox(pr, o)
       IN  /\ execLog' = r.log
           /\ depsInstalled' = r.depsInstalled
           /\ IF r.threw
                THEN /\ pc' = "finally"
                     /\ err' = "setupSandbox"
                ELSE /\ pc' = "runReview"
                     /\ UNCHANGED err
  /\ UNCHANGED <<otherVars, platformVars, env, pr, systemPrompt, http,
                 fetches, sandboxVars, streamVars, gateVars, result,
                 outcome, exitCode>>

\* ------------------------------------------------------------------------
\* runReview: the agent is created (agent.ts lines 86-120)
\* ------------------------------------------------------------------------
\* buildSystemPrompt (message.ts lines 11-25).  Of the prompt the model keeps
\* the branch named as checked out, the note about the dependencies, and
\* the memory allowance of the install command the note suggests (none when
\* the dependencies are installed).
\* Variant: the note is chosen the wrong way round.
buildSystemPromptInverted(p, opts) ==
  [branch |-> p.head.ref,
   depsNote |-> IF ~opts.depsInstalled THEN "installed" ELSE "install failed",
   retry |-> IF ~opts.depsInstalled THEN <<>> ELSE <<RetryMaxOldSpace>>]

buildSystemPrompt(p, opts) ==
  [branch |-> p.head.ref,
   depsNote |-> IF opts.depsInstalled THEN "installed" ELSE "install failed",
   retry |-> IF opts.depsInstalled THEN <<>> ELSE <<RetryMaxOldSpace>>]

\* index.ts lines 147-155 and agent.ts lines 90-120: main hands the
\* depsInstalled it got from setupSandbox to runReview, which creates the
\* agent with the system prompt built from it and starts the stream.
StartAgent ==
  /\ pc = "runReview"
  /\ systemPrompt' = buildSystemPrompt(pr, [depsInstalled |-> depsInstalled])
  /\ pc' = "stream"
  /\ UNCHANGED <<otherVars, platformVars, env, pr, execLog, http, fetches, sandboxVars, depsInstalled,
                 streamVars, gateVars, result, outcome, err, exitCode>>

\* ------------------------------------------------------------------------
\* runReview, phase 1: the stream loop (agent.ts lines 110-189)
\* ------------------------------------------------------------------------
\* Lines 128-132: a message with a (truthy) id is skipped when the id was
\* seen, and its id is recorded otherwise; a message without id is neither.
\* Variant: a first occurrence is not recorded (line 131 missing).
DedupNoAdd(msg, seen) ==
  IF msg.id # NoId
    THEN IF msg.id \in seen
           THEN [skip |-> TRUE, seen |-> seen]
           ELSE [skip |-> FALSE, seen |-> seen]
    ELSE [skip |-> FALSE, seen |-> seen]

\* Variant: the `if (msgId)` test of line 129 is missing, so a missing id is
\* looked up and recorded like any other.
DedupNoIdCheck(msg, seen) ==
  IF msg.id \in seen
    THEN [skip |-> TRUE, seen |-> seen]
    ELSE [skip |-> FALSE, seen |-> seen \cup {msg.id}]

Dedup(msg, seen) ==
  IF msg.id # NoId
    THEN IF msg.id \in seen
           THEN [skip |-> TRUE, seen |-> seen]
           ELSE [skip |-> FALSE, seen |-> seen \cup {msg.id}]
    ELSE [skip |-> FALSE, seen |-> seen]

Line(kind, name) == [kind |-> kind, name |-> name]

\* Lines 135-155: the tool calls of one AI message, in order.
RECURSIVE RenderToolCalls(_, _, _)
RenderToolCalls(calls, pending, out) ==
  IF calls = <<>> THEN [pending |-> pending, out |-> out]
  ELSE LET tc == Head(calls)
       IN  IF tc.name = "submit_review"
             THEN RenderToolCalls(Tail(calls), Some(tc.args),
                                  Append(out, Line("submit_review", tc.name)))
           ELSE IF tc.name = "write_todos"
             THEN RenderToolCalls(Tail(calls), pending, out)
           ELSE RenderToolCalls(Tail(calls), pending,
                                Append(out, Line("tool_call", tc.name)))

\* Lines 134-186: what one message that passed the dedup check does to
\* pendingReview and which lines it writes.
\* Variant: the result of write_todos is displayed like any other.
ProcessMessageShowsTodos(msg, pending) ==
  LET afterCalls ==
        IF msg.type = "ai" /\ Len(msg.tool_calls) > 0
          THEN RenderToolCalls(msg.tool_calls, pending, <<>>)
          ELSE [pending |-> pending, out |-> <<>>]
  IN  IF msg.type = "tool"
        THEN [afterCalls EXCEPT
                !.out = Append(@, Line("tool_result", msg.name))]
      ELSE IF msg.type = "ai" /\ msg.content # "" /\ Len(msg.tool_calls) = 0
        THEN [afterCalls EXCEPT !.out = Append(@, Line("text", ""))]
      ELSE afterCalls

ProcessMessage(msg, pending) ==
  LET afterCalls ==
        IF msg.type = "ai" /\ Len(msg.tool_calls) > 0
          THEN RenderToolCalls(msg.tool_calls, pending, <<>>)
          ELSE [pending |-> pending, out |-> <<>>]
  IN  IF msg.type = "tool"
        THEN IF msg.name = "write_todos"
               THEN afterCalls
               ELSE [afterCalls EXCEPT
                       !.out = Append(@, Line("tool_result", msg.name))]
      ELSE IF msg.type = "ai" /\ msg.content # "" /\ Len(msg.tool_calls) = 0
        THEN [afterCalls EXCEPT !.out = Append(@, Line("text", ""))]
      ELSE afterCalls

\* The arguments of the first submit_review call among calls, if any.
RECURSIVE FirstSubmit(_)
FirstSubmit(calls) ==
  IF calls = <<>> THEN Null
  ELSE IF Head(calls).name = "submit_review" THEN Some(Head(calls).args)
  ELSE FirstSubmit(Tail(calls))

\* The message msg arrives and the loop body (lines 126-187) runs on it.
\* Variant: the lines of a message are written above those written before.
DeliverOnTop(msg) ==
  LET d == Dedup(msg, seenMessageIds)
      p == ProcessMessage(msg, pendingReview)
  IN  /\ seenMessageIds' = d.seen
      /\ delivered' = delivered + 1
      /\ arrived' = [arrived EXCEPT ![msg.id] = @ + 1]
      /\ IF d.skip
           THEN UNCHANGED <<pendingReview, rendered, processed, firstCaptured>>
           ELSE /\ pendingReview' = p.pending
                /\ rendered' = p.out \o rendered
                /\ processed' = [processed EXCEPT ![msg.id] = @ + 1]
                /\ firstCaptured' =
                     IF firstCaptured = Null /\ msg.type = "ai"
                       THEN FirstSubmit(msg.tool_calls)
                       ELSE firstCaptured
      /\ UNCHANGED <<otherVars, platformVars, env, pr, execLog, systemPrompt, http,
                 pc, fetches, sandboxVars, depsInstalled, streamEnded,
                     gateVars, result, outcome, err, exitCode>>

Deliver(msg) ==
  LET d == Dedup(msg, seenMessageIds)
      p == ProcessMessage(msg, pendingReview)
  IN  /\ seenMessageIds' = d.seen
      /\ delivered' = delivered + 1
      /\ arrived' = [arrived EXCEPT ![msg.id] = @ + 1]
      /\ IF d.skip
           THEN UNCHANGED <<pendingReview, rendered, processed, firstCaptured>>
           ELSE /\ pendingReview' = p.pending
                /\ rendered' = rendered \o p.out
                /\ processed' = [processed EXCEPT ![msg.id] = @ + 1]
                /\ firstCaptured' =
                     IF firstCaptured = Null /\ msg.type = "ai"
                       THEN FirstSubmit(msg.tool_calls)
                       ELSE firstCaptured
      /\ UNCHANGED <<otherVars, platformVars, env, pr, execLog, systemPrompt, http,
                 pc, fetches, sandboxVars, depsInstalled, streamEnded,
                     gateVars, result, outcome, err, exitCode>>

\* The messages of the agent in a full run of main: AI messages that carry
\* text or submit_review calls only (streams with other tool calls, tool
\* results and messages without id are those of the stream-loop runs).
RunMessage ==
  {m \in Message :
     /\ m.id \in MessageIds
     /\ m.type = "ai"
     /\ \A i \in DOMAIN m.tool_calls : m.tool_calls[i].name = "submit_review"}

\* The stream of a full run delivers its next message.
StreamMessage ==
  /\ pc = "stream"
  /\ delivered < MaxRunStream
  /\ \E msg \in RunMessage : Deliver(msg)

\* agent.stream() or the iteration raises: runReview throws (index.ts 147).
StreamThrow ==
  /\ pc = "stream"
  /\ pc' = "finally"
  /\ err' = "runReview"
  /\ result' = "threw"
  /\ UNCHANGED <<otherVars, platformVars, env, pr, execLog, systemPrompt, http,
                 fetches, sandboxVars, depsInstalled, streamVars, gateVars,
                 outcome, exitCode>>

\* The stream is exhausted; the for-await loop (line 122) ends.
StreamEnd ==
  /\ pc = "stream"
  /\ pc' = "phase2"
  /\ streamEnded' = TRUE
  /\ UNCHANGED <<otherVars, platformVars, env, pr, execLog, systemPrompt, http,
                 fetches, sandboxVars, depsInstalled, seenMessageIds,
                 pendingReview, rendered, delivered, arrived, processed,
                 firstCaptured, gateVars, result, outcome, err, exitCode>>

\* ------------------------------------------------------------------------
\* The approval prompt (github.ts lines 253-261)
\* ------------------------------------------------------------------------
\* What the human can do at clack's confirm prompt: answer yes, answer no,
\* or interrupt it (Ctrl+C, which confirm reports as a cancel symbol).
HumanInputs == {"yes", "no", "cancel"}

\* confirmAction: on a cancel symbol it calls process.exit(0) (line 258) and
\* never returns; otherwise it returns the boolean answer (line 260).
\* Variant: every answer that is not an interrupt counts as approval.
confirmActionAlwaysYes(input) ==
  [exits |-> input = "cancel", value |-> TRUE]

confirmAction(input) ==
  [exits |-> input = "cancel", value |-> input = "yes"]

\* ------------------------------------------------------------------------
\* postReviewToGitHub (github.ts lines 128-188)
\* ------------------------------------------------------------------------
\* Lines 140-144.
eventMap(verdict) ==
  CASE verdict = "comment" -> "COMMENT"
    [] verdict = "approve" -> "APPROVE"
    [] verdict = "request_changes" -> "REQUEST_CHANGES"
    [] OTHER -> "COMMENT"

\* Lines 153-158: the comment object sent for one review comment.
PostComment(comment) ==
  [path |-> comment.path, line |-> comment.line, side |-> "RIGHT",
   body |-> comment.body]

\* Lines 146-159: the request body; `comments` is set only for a non-empty
\* list (hasComments tells whether the key is present).
PostBody(commitSha, review) ==
  [commit_id |-> commitSha,
   body |-> review.summary,
   event |-> eventMap(review.verdict),
   hasComments |-> Len(review.comments) > 0,
   comments |-> [i \in 1..Len(review.comments) |-> PostComment(review.comments[i])]]

HeadSha == "sha-head"

\* postReviewToGitHub (lines 128-188) called with the token set or not, when
\* GitHub answers the request with status.  Without a token it throws before
\* any request (lines 135-138); otherwise it sends one authenticated POST and
\* throws when the response is not ok (lines 173-185).
postReviewToGitHub(token, commitSha, review, status) ==
  IF ~token
    THEN [threw |-> TRUE, message |-> "GITHUB_TOKEN is required to post reviews.",
          call |-> [call |-> "write", requests |-> <<>>, returned |-> 0],
          bodies |-> <<>>]
    ELSE [threw |-> ~Ok(status),
          message |-> IF Ok(status) THEN ""
                      ELSE IF status = 403 THEN "GitHub returned 403 Forbidden."
                      ELSE "Failed to post review",
          call |-> [call |-> "write",
                    requests |-> <<Request("POST", ghHeaders(token), status)>>,
                    returned |-> 1],
          bodies |-> <<PostBody(commitSha, review)>>]

\* ------------------------------------------------------------------------
\* runReview, phase 2 (agent.ts lines 195-231)
\* ------------------------------------------------------------------------
\* Line 195: the test that ends runReview without a prompt.
\* Variant: the test of line 195 is missing.
NoProposalNever(pending) == FALSE

NoProposal(pending) == pending = Null

\* Lines 195-202: return null without a proposal; otherwise display the
\* pending review and show the prompt.
Phase2 ==
  /\ pc = "phase2"
  /\ IF NoProposal(pendingReview)
       THEN /\ rendered' = Append(rendered, Line("warn_no_review", ""))
            /\ result' = "null"
            /\ pc' = "done"
            /\ UNCHANGED <<displayed, prompts>>
       ELSE /\ displayed' = displayed \o pendingReview
            /\ prompts' = prompts + 1
            /\ pc' = "confirm"
            /\ UNCHANGED <<rendered, result>>
  /\ UNCHANGED <<otherVars, platformVars, env, pr, execLog, systemPrompt, http,
                 fetches, sandboxVars, depsInstalled, seenMessageIds,
                 pendingReview, delivered, arrived, processed, firstCaptured,
                 streamEnded, answer, postCalls, requests,
                 outcome, err, exitCode>>

\* Lines 202-204 and 228-231: the human's decision.  An interrupt leaves the
\* process through process.exit(0) inside confirmAction: the rest of
\* runReview and main's finally block do not run.
Confirm ==
  /\ pc = "confirm"
  /\ \E input \in HumanInputs :
       LET c == confirmAction(input)
       IN  /\ answer' = input
           /\ IF c.exits
                THEN /\ pc' = "exit"
                     /\ exitCode' = 0
                     /\ UNCHANGED <<rendered, result>>
              ELSE IF c.value
                THEN /\ pc' = "post"
                     /\ UNCHANGED <<rendered, result, exitCode>>
              ELSE /\ rendered' = Append(rendered, Line("cancelled", ""))
                   /\ result' = "null"
                   /\ pc' = "done"
                   /\ UNCHANGED exitCode
  /\ UNCHANGED <<otherVars, platformVars, env, pr, execLog, systemPrompt, http,
                 fetches, sandboxVars, depsInstalled, seenMessageIds,
                 pendingReview, delivered, arrived, processed, firstCaptured,
                 streamEnded, displayed, prompts,
                 postCalls, requests, outcome, err>>

\* The prompt itself fails (confirm rejects): runReview throws.
ConfirmThrow ==
  /\ pc = "confirm"
  /\ answer' = "threw"
  /\ err' = "confirm"
  /\ result' = "threw"
  /\ pc' = "finally"
  /\ UNCHANGED <<otherVars, platformVars, env, pr, execLog, systemPrompt, http,
                 fetches, sandboxVars, depsInstalled, streamVars,
                 displayed, prompts, postCalls, requests, outcome, exitCode>>

\* Lines 211-227: what runReview does once postReviewToGitHub returned or
\* threw: it reports the result and returns, the review after a success and
\* null after a failure (caught at line 221).
\* Variant: after a failure the post is attempted again.
afterPostRetry(threw) ==
  IF threw
    THEN [line |-> "post_failed", result |-> "null", pc |-> "post"]
    ELSE [line |-> "post_ok", result |-> "review", pc |-> "done"]

\* Variant: after a failure runReview still returns the review.
afterPostReturnsReview(threw) ==
  IF threw
    THEN [line |-> "post_failed", result |-> "review", pc |-> "done"]
    ELSE [line |-> "post_ok", result |-> "review", pc |-> "done"]

afterPost(threw) ==
  IF threw
    THEN [line |-> "post_failed", result |-> "null", pc |-> "done"]
    ELSE [line |-> "post_ok", result |-> "review", pc |-> "done"]

\* Lines 204-227 with github.ts 128-188: one call of postReviewToGitHub.
PostReview ==
  /\ pc = "post"
  /\ postCalls' = postCalls + 1
  /\ \E status \in Status :
       LET p == postReviewToGitHub(env.GITHUB_TOKEN, HeadSha, pendingReview[1], status)
           a == afterPost(p.threw)
       IN  /\ http' = Append(http, p.call)
           /\ requests' = requests \o p.bodies
           /\ rendered' = Append(rendered, Line(a.line, p.message))
           /\ result' = a.result
           /\ pc' = a.pc
  /\ UNCHANGED <<otherVars, platformVars, env, pr, execLog, systemPrompt, fetches, sandboxVars,
                 depsInstalled, seenMessageIds, pendingReview, delivered,
                 arrived, processed, firstCaptured, streamEnded,
                 displayed, prompts, answer, outcome, err, exitCode>>

\* ------------------------------------------------------------------------
\* main after runReview (index.ts lines 157-174) and close (part_002 58-68)
\* ------------------------------------------------------------------------
Done ==
  /\ pc = "done"
  /\ outcome' = IF result = "review" THEN "Review posted" ELSE "No review was posted."
  /\ pc' = "finally"
  /\ UNCHANGED <<otherVars, platformVars, env, pr, execLog, systemPrompt, http,
                 fetches, sandboxVars, depsInstalled, streamVars, gateVars,
                 result, err, exitCode>>

\* close() (part_002 lines 58-68): the Session is closed, then the Fork is
\* deleted inside a try/catch.  sessionCloses and volumeDeletes tell whether
\* the platform carries out the two calls.  A failing Session close
\* propagates before the Fork deletion is tried; a failing Fork deletion is
\* only logged.
\* Variant: a failing Fork deletion is not caught and propagates.
closeDeleteThrows(sessionCloses, volumeDeletes) ==
  IF sessionCloses /\ volumeDeletes
    THEN [threw |-> FALSE, calls |-> <<"sandbox.close", "volumes.delete">>,
          session |-> "closed", volume |-> "deleted",
          deletes |-> {volumeSlug},
          messages |-> <<[kind |-> "info", slug |-> volumeSlug]>>]
    ELSE [threw |-> TRUE,
          calls |-> IF sessionCloses THEN <<"sandbox.close", "volumes.delete">>
                                     ELSE <<"sandbox.close">>,
          session |-> IF sessionCloses THEN "closed" ELSE session,
          volume |-> volume, deletes |-> {}, messages |-> <<>>]

\* Variant: the delete call names the snapshot instead of the Fork.
closeDeletesSnapshot(sessionCloses, volumeDeletes) ==
  IF sessionCloses
    THEN [threw |-> FALSE, calls |-> <<"sandbox.close", "volumes.delete">>,
          session |-> "closed",
          volume |-> volume,
          deletes |-> IF volumeDeletes THEN {SNAPSHOT_SLUG} ELSE {},
          messages |-> <<[kind |-> IF volumeDeletes THEN "info" ELSE "warn",
                          slug |-> SNAPSHOT_SLUG]>>]
    ELSE [threw |-> TRUE, calls |-> <<"sandbox.close">>,
          session |-> session, volume |-> volume, deletes |-> {},
          messages |-> <<>>]

\* Variant: the Fork is deleted first and the Session closed after it.
closeDeletesFirst(sessionCloses, volumeDeletes) ==
  [threw |-> ~sessionCloses, calls |-> <<"volumes.delete", "sandbox.close">>,
   session |-> IF sessionCloses THEN "closed" ELSE session,
   volume |-> IF volumeDeletes THEN "deleted" ELSE volume,
   deletes |-> IF volumeDeletes THEN {volumeSlug} ELSE {},
   messages |-> <<[kind |-> IF volumeDeletes THEN "info" ELSE "warn",
                   slug |-> volumeSlug]>>]

close(sessionCloses, volumeDeletes) ==
  IF sessionCloses
    THEN [threw |-> FALSE, calls |-> <<"sandbox.close", "volumes.delete">>,
          session |-> "closed",
          volume |-> IF volumeDeletes THEN "deleted" ELSE volume,
          deletes |-> IF volumeDeletes THEN {volumeSlug} ELSE {},
          messages |-> <<[kind |-> IF volumeDeletes THEN "info" ELSE "warn",
                          slug |-> volumeSlug]>>]
    ELSE [threw |-> TRUE, calls |-> <<"sandbox.close">>,
          session |-> session, volume |-> volume, deletes |-> {},
          messages |-> <<>>]

\* index.ts lines 171-174: the status the process ends with once main()
\* has settled, rejected with error or resolved (NoError).
\* Variant: the handler does not set the exit status.
mainCatchNoStatus(error) == 0

mainCatch(error) == IF error # NoError THEN 1 ELSE 0

\* The finally block (index.ts 164-168) calls close().  An error raised by
\* close() replaces a pending one; whatever error is pending afterwards
\* reaches main().catch (lines 171-174), which exits with status 1.
Finally ==
  /\ pc = "finally"
  /\ closeCalls' = closeCalls + 1
  /\ \E sessionCloses \in BOOLEAN, volumeDeletes \in BOOLEAN :
       LET c == close(sessionCloses, volumeDeletes)
       IN  /\ closeLog' = closeLog \o c.calls
           /\ closeMessages' = closeMessages \o c.messages
           /\ session' = c.session
           /\ volume' = c.volume
           /\ forks' = forks \ c.deletes
           /\ snapshot' = IF SNAPSHOT_SLUG \in c.deletes THEN Null ELSE snapshot
           /\ err' = IF c.threw THEN "close" ELSE err
           /\ exitCode' = mainCatch(IF c.threw THEN "close" ELSE err)
  /\ pc' = "exit"
  /\ UNCHANGED <<otherVars, now, volumeSlug, env, pr, execLog, systemPrompt,
                 http, fetches, depsInstalled, streamVars, gateVars, result,
                 outcome>>

Next ==
  \/ ValidateEnv
  \/ FetchPRData
  \/ CreateSandbox
  \/ SetupSandbox
  \/ StartAgent
  \/ StreamMessage
  \/ StreamThrow
  \/ StreamEnd
  \/ Phase2
  \/ Confirm
  \/ ConfirmThrow
  \/ PostReview
  \/ Done
  \/ Finally

Spec == Init /\ [][Next]_vars

\* ------------------------------------------------------------------------
\* Approval-gate runs: the run from the moment setupSandbox has returned,
\* with an agent whose stream carries one message with one submit_review
\* call, its arguments ranging over every review of Review.
\* ------------------------------------------------------------------------
ProposalMessage(r) ==
  [id |-> "m1", type |-> "ai",
   tool_calls |-> <<[name |-> "submit_review", args |-> r]>>,
   name |-> "", content |-> ""]

StreamProposal ==
  /\ pc = "stream"
  /\ delivered = 0
  /\ \E r \in Review : Deliver(ProposalMessage(r))

\* Every step of setup succeeds.
SetupOk ==
  [remote |-> TRUE, head |-> TRUE, base |-> TRUE, completed |-> TRUE,
   checkout |-> TRUE, install |-> TRUE]

\* The state main is in when setupSandbox has returned (index.ts line 143):
\* a same-origin change request was read at the first attempt, and setup
\* went through with or without the dependencies installed.
GateStart ==
  /\ env = [ANTHROPIC_API_KEY |-> TRUE, GITHUB_TOKEN |-> TRUE]
  /\ pr = SameOriginPR
  /\ http = <<ghFetch(TRUE, 200, 200)>>
  /\ \E install \in BOOLEAN :
       LET r == setupSandbox(SameOriginPR, [SetupOk EXCEPT !.install = install])
       IN  execLog = r.log /\ depsInstalled = r.depsInstalled
  /\ systemPrompt = NoPrompt
  /\ pc = "runReview"
  /\ fetches = 1
  /\ volume = "created"
  /\ session = "live"
  /\ closeCalls = 0
  /\ closeLog = <<>>
  /\ seenMessageIds = {}
  /\ pendingReview = Null
  /\ rendered = <<>>
  /\ delivered = 0
  /\ arrived = [i \in MessageIds \cup {NoId} |-> 0]
  /\ processed = [i \in MessageIds \cup {NoId} |-> 0]
  /\ firstCaptured = Null
  /\ streamEnded = FALSE
  /\ displayed = <<>>
  /\ prompts = 0
  /\ answer = "none"
  /\ postCalls = 0
  /\ requests = <<>>
  /\ result = "none"
  /\ outcome = "none"
  /\ err = NoError
  /\ exitCode = 0
  /\ volumeSlug = ForkSlug(1)
  /\ closeMessages = <<>>
  /\ now = 1
  /\ snapshot = Snapshot({}, 0)
  /\ forks = {ForkSlug(1)}
  /\ InitRuns
  /\ InitNoRefresh

InitGate == GateStart /\ InitInputs

NextGate ==
  \/ StartAgent
  \/ StreamProposal
  \/ StreamThrow
  \/ StreamEnd
  \/ Phase2
  \/ Confirm
  \/ ConfirmThrow
  \/ PostReview
  \/ Done
  \/ Finally

SpecGate == InitGate /\ [][NextGate]_vars

\* ------------------------------------------------------------------------
\* Stream-loop runs: phase 1 of runReview on streams of up to MaxStream
\* messages, up to the point where runReview returns null or shows the
\* prompt.
\* ------------------------------------------------------------------------
InitStream == InitGate /\ depsInstalled

LongStreamMessage ==
  /\ pc = "stream"
  /\ delivered < MaxStream
  /\ \E msg \in Message : Deliver(msg)

NextStream ==
  \/ StartAgent
  \/ LongStreamMessage
  \/ StreamThrow
  \/ StreamEnd
  \/ Phase2

SpecStream == InitStream /\ [][NextStream]_vars

\* ------------------------------------------------------------------------
\* GitHub-client runs: ghFetch and postReviewToGitHub called on their own,
\* with or without a token in the environment, up to MaxHttpCalls times.
\* ------------------------------------------------------------------------
InitGitHub ==
  /\ env \in [ANTHROPIC_API_KEY : {TRUE}, GITHUB_TOKEN : BOOLEAN]
  /\ pr = NoPR
  /\ http = <<>>
  /\ execLog = <<>>
  /\ systemPrompt = NoPrompt
  /\ pc = "github"
  /\ fetches = 0
  /\ volume = "none"
  /\ session = "none"
  /\ closeCalls = 0
  /\ closeLog = <<>>
  /\ depsInstalled = FALSE
  /\ seenMessageIds = {}
  /\ pendingReview = Null
  /\ rendered = <<>>
  /\ delivered = 0
  /\ arrived = [i \in MessageIds \cup {NoId} |-> 0]
  /\ processed = [i \in MessageIds \cup {NoId} |-> 0]
  /\ firstCaptured = Null
  /\ streamEnded = FALSE
  /\ displayed = <<>>
  /\ prompts = 0
  /\ answer = "none"
  /\ postCalls = 0
  /\ requests = <<>>
  /\ result = "none"
  /\ outcome = "none"
  /\ err = NoError
  /\ exitCode = 0
  /\ volumeSlug = NoSlug
  /\ closeMessages = <<>>
  /\ InitPlatform
  /\ InitInputs
  /\ InitRuns
  /\ InitNoRefresh

\* One call of ghFetch (github.ts lines 33-44).
ReadCall ==
  /\ pc = "github"
  /\ Len(http) < MaxHttpCalls
  /\ \E first \in Status, second \in Status :
       http' = Append(http, ghFetch(env.GITHUB_TOKEN, first, second))
  /\ fetches' = fetches + 1
  /\ UNCHANGED <<otherVars, platformVars, env, pr, execLog, systemPrompt, pc, sandboxVars, depsInstalled,
                 streamVars, gateVars, result, outcome, err, exitCode>>

\* One call of postReviewToGitHub (github.ts lines 128-188).
WriteCall ==
  /\ pc = "github"
  /\ Len(http) < MaxHttpCalls
  /\ \E review \in StreamReviews, status \in Status :
       LET p == postReviewToGitHub(env.GITHUB_TOKEN, HeadSha, review, status)
       IN  /\ http' = Append(http, p.call)
           /\ requests' = requests \o p.bodies
  /\ postCalls' = postCalls + 1
  /\ UNCHANGED <<otherVars, platformVars, env, pr, execLog, systemPrompt, pc, fetches, sandboxVars,
                 depsInstalled, streamVars, displayed, prompts, answer,
                 result, outcome, err, exitCode>>

NextGitHub ==
  \/ ReadCall
  \/ WriteCall

SpecGitHub == InitGitHub /\ [][NextGitHub]_vars

\* ------------------------------------------------------------------------
\* Properties
\* ------------------------------------------------------------------------
BeforeDecision ==
  {"main", "fetch", "createSandbox", "setupSandbox", "runReview", "stream",
   "phase2", "confirm"}

\* C1: a post is issued only after an affirmative answer at the approval
\* prompt: none while the stream is consumed, none while the prompt is
\* pending, none after a rejection, an interrupt or a failed prompt; and
\* after an affirmative answer postReviewToGitHub is called exactly once.
C1_PostOnlyAfterApproval ==
  /\ (postCalls > 0 \/ requests # <<>>) => answer = "yes"
  /\ pc \in BeforeDecision => (postCalls = 0 /\ requests = <<>>)
  /\ answer \in {"no", "cancel", "threw"} => (postCalls = 0 /\ requests = <<>>)
  /\ (answer = "yes" /\ pc # "post") => (postCalls = 1 /\ Len(requests) = 1)

\* C1 witness: the human approved and the request went out.
C1_Witness ==
  pc = "exit" /\ answer = "yes" /\ postCalls = 1 /\ Len(requests) = 1

\* C2: in every run in which createSandbox succeeded, close() has been
\* called exactly once when the process ends (and never more than once).
C2_TeardownExactlyOnce ==
  /\ closeCalls <= 1
  /\ (pc = "exit" /\ session # "none") => closeCalls = 1

\* C3: an interrupt at the approval prompt ends the run as a negative answer
\* does: nothing is posted and close() has run when the process ends.
C3_InterruptLikeRejection ==
  (pc = "exit" /\ answer = "cancel") =>
    (postCalls = 0 /\ requests = <<>> /\ closeCalls = 1)

\* C4: every message id is processed at most once, its first occurrence is
\* processed, and the arrival of a message whose id arrived before changes
\* neither the rendered lines nor the pending review.
C4_RenderedOncePerId ==
  /\ [](\A id \in MessageIds :
          /\ processed[id] <= 1
          /\ arrived[id] >= 1 => processed[id] = 1)
  /\ [][\A id \in MessageIds :
          (arrived'[id] > arrived[id] /\ arrived[id] >= 1) =>
            (rendered' = rendered /\ pendingReview' = pendingReview)]_vars

\* C4 witness: a message id arrived twice and something was rendered for it.
C4_Witness ==
  \E id \in MessageIds :
    arrived[id] = 2 /\ processed[id] = 1 /\ Len(rendered) = 1 /\ pc = "confirm"

\* C5: a message without id is processed every time it arrives and the
\* missing id is never put into the seen set.
C5_NoIdAlwaysRendered ==
  /\ processed[NoId] = arrived[NoId]
  /\ NoId \notin seenMessageIds

\* C5 witness: two equal text messages without id were both rendered.
C5_Witness ==
  /\ arrived[NoId] = 2
  /\ arrived["m1"] = 0 /\ arrived["m2"] = 0
  /\ rendered = <<Line("text", ""), Line("text", "")>>

\* C6: the pending review, the review displayed and the review posted are
\* the arguments of the first submit_review call processed in the run.
C6_FirstProposalKept ==
  /\ pendingReview = firstCaptured
  /\ \A i \in DOMAIN displayed : Some(displayed[i]) = firstCaptured
  /\ \A i \in DOMAIN requests : requests[i] = PostBody(HeadSha, firstCaptured[1])

C8_NoReviewOutcome ==
  (streamEnded /\ pendingReview = Null /\ pc # "phase2") =>
    /\ result = "null"
    /\ displayed = <<>> /\ prompts = 0 /\ answer = "none"
    /\ postCalls = 0 /\ requests = <<>>
    /\ rendered # <<>> /\ rendered[Len(rendered)] = Line("warn_no_review", "")
    /\ pc \in {"done", "finally"} => err = NoError
    /\ pc \in {"finally", "exit"} => outcome = "No review was posted."

\* C8 witness: a run whose stream delivered messages but no submit_review
\* ended normally.
C8_Witness ==
  /\ pc = "exit" /\ exitCode = 0
  /\ streamEnded /\ pendingReview = Null /\ delivered >= 1
  /\ Len(rendered) = 2
  /\ outcome = "No review was posted."

\* The review a request body describes: the verdict behind its event, and for
\* every comment the range it carries (no start_line key: a one-line range).
EventVerdict(event) == CHOOSE v \in Verdicts : eventMap(v) = event

PostedComment(c) ==
  [path |-> c.path, line |-> c.line,
   start_line |-> IF "start_line" \in DOMAIN c THEN c.start_line ELSE NoStartLine,
   body |-> c.body]

PostedReview(b) ==
  [summary |-> b.body, verdict |-> EventVerdict(b.event),
   comments |-> IF b.hasComments
                  THEN [i \in 1..Len(b.comments) |-> PostedComment(b.comments[i])]
                  ELSE <<>>]

\* C9: the review posted is the captured review unchanged: same verdict,
\* same summary, same comments in the same order with the same path, line
\* range and body.
C9_PostedVerbatim ==
  \A i \in DOMAIN requests : PostedReview(requests[i]) = pendingReview[1]

\* A comment whose two-line range is not increasing.
BadRange(c) == c.start_line # NoStartLine /\ c.start_line >= c.line

HasBadRange(pending) ==
  pending # Null /\ \E i \in DOMAIN pending[1].comments : BadRange(pending[1].comments[i])

\* C10: a captured review with a comment whose start_line >= line is never
\* displayed, never put to the human and never posted.
C10_BadRangeRejected ==
  HasBadRange(pendingReview) =>
    (displayed = <<>> /\ prompts = 0 /\ postCalls = 0 /\ requests = <<>>)

\* The calls of postReviewToGitHub among the calls made so far.
WriteCalls == {i \in DOMAIN http : http[i].call = "write"}

\* C11: in every run the post is attempted at most once and the approval
\* prompt is shown at most once; when the post failed after approval, the
\* failure is the last thing reported, runReview has returned, and neither
\* a second attempt nor a second prompt follows.
C11_FailedPostEndsRun ==
  /\ postCalls <= 1 /\ prompts <= 1
  /\ Cardinality(WriteCalls) <= 1 /\ Len(requests) <= 1
  /\ (postCalls = 1 /\ result = "null") =>
       /\ pc \in {"done", "finally", "exit"}
       /\ rendered # <<>> /\ rendered[Len(rendered)].kind = "post_failed"

\* C11 witness: the human approved, GitHub refused the post, and the run
\* ended.
C11_Witness ==
  /\ pc = "exit" /\ answer = "yes" /\ result = "null"
  /\ postCalls = 1 /\ prompts = 1
  /\ \E i \in WriteCalls : ~Ok(ReturnedStatus(http[i]))
  /\ outcome = "No review was posted."

\* The agent has been created and its stream started.
AgentStarted == systemPrompt # NoPrompt \/ delivered > 0

\* C12: the agent is started only after setupSandbox ran the fetches and
\* the checkout and all of them succeeded; the prompt is shown only after a
\* submit_review call was captured; the post is made only after an
\* affirmative answer; and after a fatal setup error the agent is never
\* started.
C12_PhasesOrdered ==
  /\ AgentStarted =>
       /\ \E i \in DOMAIN execLog : execLog[i].op = "checkout"
       /\ \A i \in DOMAIN execLog :
            execLog[i].op \in {"remote", "fetch", "checkout"} => execLog[i].ok
  /\ pc \in {"stream", "phase2", "confirm", "post", "done"} => AgentStarted
  /\ prompts > 0 => (pendingReview # Null /\ firstCaptured # Null)
  /\ (postCalls > 0 \/ requests # <<>>) => answer = "yes"
  /\ err = "setupSandbox" => ~AgentStarted

\* C13: when the remote registration, a fetch or the checkout failed, no
\* later step of setup (checkout, install) was run, setupSandbox threw and
\* the agent was not started.
C13_SetupFailureFatal ==
  \A i \in DOMAIN execLog :
    (execLog[i].op \in {"remote", "fetch", "checkout"} /\ ~execLog[i].ok) =>
      /\ \A j \in DOMAIN execLog :
           j > i => execLog[j].op \notin {"checkout", "install"}
      /\ pc \in {"finally", "exit"}
      /\ ~AgentStarted

\* The install was the last step of setup and it failed.
InstallFailed ==
  /\ execLog # <<>>
  /\ execLog[Len(execLog)].op = "install"
  /\ ~execLog[Len(execLog)].ok

\* C14: when the install failed after a successful checkout, setupSandbox
\* did not throw and returned depsInstalled = false; the run went on to
\* runReview, and the agent runs in the session setup was run in.
C14_InstallFailureNonFatal ==
  InstallFailed =>
    /\ ~depsInstalled
    /\ err # "setupSandbox"
    /\ pc = "runReview" \/ AgentStarted
    /\ pc \in {"runReview", "stream", "phase2", "confirm", "post", "done"} =>
         (session = "live" /\ volume = "created" /\ closeCalls = 0)

\* C14 witness: the install failed and the agent's stream delivers messages
\* in the live session.
C14_Witness ==
  /\ InstallFailed /\ execLog[Len(execLog) - 1].op = "checkout"
  /\ execLog[Len(execLog) - 1].ok
  /\ pc = "stream" /\ delivered >= 1 /\ session = "live"

\* C15: the system prompt carries the install-failed note, with a retry
\* command whose memory allowance is larger than the one setup used, exactly
\* when setupSandbox returned depsInstalled = false.
C15_DegradedFlagReachesPrompt ==
  systemPrompt # NoPrompt =>
    /\ depsInstalled <=> ~InstallFailed
    /\ (systemPrompt.depsNote = "install failed") <=> InstallFailed
    /\ (systemPrompt.retry # <<>>) <=> InstallFailed
    /\ systemPrompt.retry # <<>> => systemPrompt.retry[1] > SetupMaxOldSpace

\* C15 witness: the agent was created with the install-failed note.
C15_Witness ==
  /\ systemPrompt # NoPrompt /\ InstallFailed
  /\ systemPrompt.depsNote = "install failed"
  /\ systemPrompt.retry = <<RetryMaxOldSpace>>

\* setupSandbox was called and is over.
SetupOver == execLog # <<>> /\ pc # "setupSandbox"

\* C16: for a same-origin change request setupSandbox registers no remote,
\* fetches the head ref and the base ref from origin, checks out (at most
\* once) a branch named after the head ref at origin's head ref, and
\* returns depsInstalled = true exactly when the install succeeded.
C16_SameOriginSetup ==
  (SetupOver /\ pr.head.repo = pr.base.repo) =>
    /\ \A i \in DOMAIN execLog :
         /\ execLog[i].op # "remote"
         /\ execLog[i].remote \in {"origin", ""}
         /\ execLog[i].op = "checkout" =>
              /\ i = 3
              /\ execLog[i].remote = "origin"
              /\ execLog[i].ref = pr.head.ref
              /\ execLog[i].branch = pr.head.ref
    /\ Len(execLog) >= 2
    /\ execLog[1] = Exec("fetch", "origin", pr.head.ref, "", execLog[1].ok)
    /\ execLog[2] = Exec("fetch", "origin", pr.base.ref, "", execLog[2].ok)
    /\ depsInstalled <=>
         (execLog[Len(execLog)].op = "install" /\ execLog[Len(execLog)].ok)

\* C16 witness: setup of a same-origin change request went through with
\* the dependencies installed.
C16_Witness ==
  /\ pc = "runReview" /\ pr = SameOriginPR
  /\ Len(execLog) = 4 /\ \A i \in DOMAIN execLog : execLog[i].ok
  /\ depsInstalled

\* C17: for a change request from a fork the first step of setupSandbox
\* registers the remote pr-fork, and only when that succeeded are the head
\* ref fetched from pr-fork and the base ref from origin; the only checkout
\* is that of the head ref of pr-fork, and no checkout names origin.
C17_ForkSetup ==
  (SetupOver /\ pr.head.repo # pr.base.repo) =>
    /\ execLog[1].op = "remote" /\ execLog[1].remote = "pr-fork"
    /\ \A i \in DOMAIN execLog :
         /\ execLog[i].op = "remote" => i = 1
         /\ execLog[i].op = "fetch" => (i > 1 /\ execLog[1].ok)
         /\ execLog[i].op = "checkout" =>
              /\ i = 4
              /\ execLog[i].remote = "pr-fork"
              /\ execLog[i].ref = pr.head.ref
    /\ Len(execLog) >= 2 =>
         /\ Len(execLog) >= 3
         /\ execLog[2] = Exec("fetch", "pr-fork", pr.head.ref, "", execLog[2].ok)
         /\ execLog[3] = Exec("fetch", "origin", pr.base.ref, "", execLog[3].ok)

\* C17 witness: setup of a change request from a fork's main branch onto
\* main went through; its checkout names pr-fork.
C17_Witness ==
  /\ pc = "runReview" /\ pr.head.repo = ForkRepo
  /\ pr.head.ref = pr.base.ref
  /\ Len(execLog) = 5
  /\ execLog[4] = Exec("checkout", "pr-fork", "main", "main", TRUE)

\* C18: with a credential missing the process does nothing but exit with
\* status 1: no change-request read, no Fork, no Session, no setup step, no
\* agent and no teardown.
C18_MissingCredentialExits ==
  ~(env.ANTHROPIC_API_KEY /\ env.GITHUB_TOKEN) =>
    /\ pc \in {"main", "exit"}
    /\ pc = "exit" => exitCode = 1
    /\ fetches = 0 /\ http = <<>> /\ pr = NoPR
    /\ volume = "none" /\ session = "none" /\ closeCalls = 0
    /\ execLog = <<>> /\ systemPrompt = NoPrompt /\ delivered = 0

\* C18 witness: the process ended at the credential check for want of
\* GITHUB_TOKEN alone.
C18_Witness ==
  /\ env.ANTHROPIC_API_KEY /\ ~env.GITHUB_TOKEN
  /\ pc = "exit" /\ exitCode = 1

\* setupSandbox threw: its last step is not the install.
SetupThrew == SetupOver /\ execLog[Len(execLog)].op # "install"

\* The run ended in a rejection by the human or without a proposal.
NormalEnd == answer = "no" \/ (streamEnded /\ pendingReview = Null)

\* close() threw: the Session close was its only platform call.
CloseThrew == closeLog = <<"sandbox.close">>

C20_ReadRetriesWriteNever ==
  \A i \in DOMAIN http :
    LET c == http[i]
    IN  /\ c.call = "read" =>
             /\ Len(c.requests) \in {1, 2}
             /\ c.returned \in {1, Len(c.requests)}
             /\ Len(c.requests) = 2 =>
                  /\ env.GITHUB_TOKEN /\ c.requests[1].auth
                  /\ c.requests[1].status \in {401, 403}
                  /\ ~c.requests[2].auth
                  /\ c.returned = 2 <=> Ok(c.requests[2].status)
        /\ c.call = "write" =>
             /\ Len(c.requests) <= 1
             /\ \A j \in DOMAIN c.requests : c.requests[j].auth
             /\ ~env.GITHUB_TOKEN => c.requests = <<>>

\* C20 witness: a read was retried without credentials and the retry's
\* response returned, and a write sent its one request and was refused.
C20_Witness ==
  /\ \E i \in DOMAIN http :
       /\ http[i].call = "read" /\ Len(http[i].requests) = 2
       /\ http[i].returned = 2
  /\ \E i \in WriteCalls :
       Len(http[i].requests) = 1 /\ http[i].requests[1].status = 403

\* ========================================================================
\* update-volume (part_006): the refresh that publishes the BaseImage
\* ========================================================================
MaxRefreshRuns == 2     \* runs of update-volume, one after the other
MaxLeftover == 2        \* "review-tmp" volumes a run of update-volume can find

\* part_006 line 402 and line 416.
MAX_RETRIES == 5
RetryDelaySec == 5

\* No interactive run is in progress: the state of main is as before its
\* first step and stays so.
InitNoRun ==
  /\ env = [ANTHROPIC_API_KEY |-> TRUE, GITHUB_TOKEN |-> TRUE]
  /\ pr = NoPR
  /\ http = <<>>
  /\ execLog = <<>>
  /\ systemPrompt = NoPrompt
  /\ pc = "idle"
  /\ fetches = 0
  /\ volume = "none"
  /\ session = "none"
  /\ closeCalls = 0
  /\ closeLog = <<>>
  /\ depsInstalled = FALSE
  /\ seenMessageIds = {}
  /\ pendingReview = Null
  /\ rendered = <<>>
  /\ delivered = 0
  /\ arrived = [i \in MessageIds \cup {NoId} |-> 0]
  /\ processed = [i \in MessageIds \cup {NoId} |-> 0]
  /\ firstCaptured = Null
  /\ streamEnded = FALSE
  /\ displayed = <<>>
  /\ prompts = 0
  /\ answer = "none"
  /\ postCalls = 0
  /\ requests = <<>>
  /\ result = "none"
  /\ outcome = "none"
  /\ err = NoError
  /\ exitCode = 0
  /\ volumeSlug = NoSlug
  /\ closeMessages = <<>>

mainVars ==
  <<env, pr, http, execLog, systemPrompt, pc, fetches, sandboxVars,
    depsInstalled, streamVars, gateVars, result, outcome, err, exitCode>>

\* What a step of update-volume outside step 9 leaves alone.
step9Vars == <<attempt, waits, leftover, refreshLog>>
checkVars == <<dirtyFiles, testsPassed, refreshWarnings>>
aloneVars == <<mainVars, inputVars, runsVars, now, runNo, buildEffect, rexit>>

\* What a build can leave behind: nothing, files the reset of step 6b takes
\* away, or staged changes, which it does not.
BuildEffects == {{}, {"modified", "untracked"}, {"staged"}}

\* The first run of update-volume.  The persistent volume is missing, not
\* bootable, or bootable with or without a clone in it; a BaseImage made by
\* an earlier run may exist, and so may Forks that interactive runs left.
InitRefresh ==
  /\ InitNoRun
  /\ InitInputs
  /\ InitRuns
  /\ now = 1
  /\ snapshot \in {Null, Snapshot({}, 0)}
  /\ \E n \in 0..MaxLeftover : forks = {ForkSlug(t) : t \in 1..n}
  /\ rpc = "volume"
  /\ runNo = 1
  /\ devVolume \in {"none", "unbootable", "bootable"}
  /\ repo \in IF devVolume = "bootable" THEN {"fresh", "exists"} ELSE {"fresh"}
  /\ tree = {}
  /\ buildEffect \in BuildEffects
  /\ buildSandbox = "none"
  /\ dirtyFiles = {}
  /\ testsPassed = "none"
  /\ attempt = 0
  /\ waits = <<>>
  /\ leftover = {}
  /\ refreshLog = <<>>
  /\ refreshWarnings = <<>>
  /\ rerr = NoError
  /\ rexit = "none"

\* run() (part_006 lines 36-107): a command that does not succeed is thrown
\* as an error (lines 95-98); nothing in main catches it but step 7.
run(ok, step, next) ==
  IF ok THEN [pc |-> next, err |-> NoError]
        ELSE [pc |-> "catch", err |-> step]

\* A step of main that is one run() call and changes nothing update-volume
\* looks at later.
Command(step, next) ==
  /\ rpc = step
  /\ \E ok \in BOOLEAN :
       LET r == run(ok, step, next)
       IN  rpc' = r.pc /\ rerr' = r.err
  /\ UNCHANGED <<aloneVars, snapshot, forks, devVolume, repo, tree,
                 buildSandbox, checkVars, step9Vars>>

\* Step 1 (lines 118-142): the persistent volume is fetched; one that is not
\* bootable is deleted, and a missing one is created from the Debian image.
EnsureVolume ==
  /\ rpc = "volume"
  /\ \E ok \in BOOLEAN :
       IF ok
         THEN /\ devVolume' = "bootable"
              /\ repo' = IF devVolume = "bootable" THEN repo ELSE "fresh"
              /\ tree' = IF devVolume = "bootable" THEN tree ELSE {}
              /\ rpc' = "stale"
              /\ UNCHANGED rerr
         ELSE /\ rpc' = "catch"
              /\ rerr' = "volume"
              /\ UNCHANGED <<devVolume, repo, tree>>
  /\ UNCHANGED <<aloneVars, snapshot, forks, buildSandbox, checkVars, step9Vars>>

\* Step 2 (lines 148-167): sandboxes labelled job=update-volume are killed;
\* a kill that fails is ignored, a failing list call is not.
KillStale ==
  /\ rpc = "stale"
  /\ \E listed \in BOOLEAN, killed \in BOOLEAN :
       IF listed
         THEN /\ buildSandbox' = IF buildSandbox = "live" /\ killed
                                   THEN "killed" ELSE buildSandbox
              /\ rpc' = "boot"
              /\ UNCHANGED rerr
         ELSE /\ rpc' = "catch"
              /\ rerr' = "stale"
              /\ UNCHANGED buildSandbox
  /\ UNCHANGED <<aloneVars, snapshot, forks, devVolume, repo, tree, checkVars,
                 step9Vars>>

\* Step 3 (lines 173-184): the build sandbox boots with the volume as root.
\* A volume is locked by the sandbox that holds it (lines 13-14), so the
\* boot fails while a sandbox of an earlier run is alive.
BootSandbox ==
  /\ rpc = "boot"
  /\ \E ok \in IF buildSandbox = "live" THEN {FALSE} ELSE BOOLEAN :
       IF ok
         THEN /\ buildSandbox' = "live"
              /\ rpc' = "dirs"
              /\ UNCHANGED rerr
         ELSE /\ rpc' = "catch"
              /\ rerr' = "boot"
              /\ UNCHANGED buildSandbox
  /\ UNCHANGED <<aloneVars, snapshot, forks, devVolume, repo, tree, checkVars,
                 step9Vars>>

\* Step 4, lines 192-196.
PrepareDirs == Command("dirs", "repoState")

\* Step 4, lines 198-215: the branch taken on the output of the test for
\* /data/repo/.git.
CheckRepoState ==
  Command("repoState", IF repo = "fresh" THEN "clone" ELSE "update")

\* Lines 203-207: git clone gives a clean working tree.
CloneRepo ==
  /\ rpc = "clone"
  /\ \E ok \in BOOLEAN :
       LET r == run(ok, "clone", "pnpm")
       IN  /\ rpc' = r.pc /\ rerr' = r.err
           /\ repo' = IF ok THEN "exists" ELSE repo
           /\ tree' = IF ok THEN {} ELSE tree
  /\ UNCHANGED <<aloneVars, snapshot, forks, devVolume, buildSandbox,
                 checkVars, step9Vars>>

\* Lines 210-214: git fetch origin && git reset --hard origin/main puts the
\* index and the tracked files back; untracked files stay.
gitResetHard(t) == t \ {"modified", "staged"}

UpdateRepo ==
  /\ rpc = "update"
  /\ \E ok \in BOOLEAN :
       LET r == run(ok, "update", "pnpm")
       IN  /\ rpc' = r.pc /\ rerr' = r.err
           /\ tree' = IF ok THEN gitResetHard(tree) ELSE tree
  /\ UNCHANGED <<aloneVars, snapshot, forks, devVolume, repo, buildSandbox,
                 checkVars, step9Vars>>

\* Step 5, lines 221-245.
InstallPnpm == Command("pnpm", "install")
InstallDeps == Command("install", "store")
VerifyStore == Command("store", "build")

\* Step 6 (lines 251-257): the build leaves behind what a build of this
\* source leaves behind (lines 262-264).
Build ==
  /\ rpc = "build"
  /\ \E ok \in BOOLEAN :
       LET r == run(ok, "build", "status")
       IN  /\ rpc' = r.pc /\ rerr' = r.err
           /\ tree' = IF ok THEN tree \cup buildEffect ELSE tree
  /\ UNCHANGED <<aloneVars, snapshot, forks, devVolume, repo, buildSandbox,
                 checkVars, step9Vars>>

\* Step 6b, lines 266-278: git status --porcelain; output means a dirty tree.
CheckClean ==
  /\ rpc = "status"
  /\ \E ok \in BOOLEAN :
       LET r == run(ok, "status", IF tree # {} THEN "diff" ELSE "tests")
       IN  /\ rpc' = r.pc /\ rerr' = r.err
           /\ dirtyFiles' = IF ok THEN tree ELSE dirtyFiles
           /\ refreshWarnings' =
                IF ok /\ tree # {} THEN Append(refreshWarnings, "dirty files")
                                   ELSE refreshWarnings
  /\ UNCHANGED <<aloneVars, snapshot, forks, devVolume, repo, tree,
                 buildSandbox, testsPassed, step9Vars>>

\* Lines 280-285.
ShowDiff == Command("diff", "reset")

\* Lines 289-293: git checkout -- . && git clean -fd restores the tracked
\* files from the index and removes untracked files; what is staged stays.
gitCheckoutClean(t) == t \ {"modified", "untracked"}

ResetTree ==
  /\ rpc = "reset"
  /\ \E ok \in BOOLEAN :
       LET r == run(ok, "reset", "verify")
       IN  /\ rpc' = r.pc /\ rerr' = r.err
           /\ tree' = IF ok THEN gitCheckoutClean(tree) ELSE tree
  /\ UNCHANGED <<aloneVars, snapshot, forks, devVolume, repo, buildSandbox,
                 checkVars, step9Vars>>

\* Lines 296-312: a tree that is still dirty ends the run with an error.
VerifyClean ==
  /\ rpc = "verify"
  /\ \E ok \in BOOLEAN :
       LET r == run(ok, "verify", IF tree # {} THEN "catch" ELSE "tests")
       IN  /\ rpc' = r.pc
           /\ rerr' = IF ok /\ tree # {} THEN "stillDirty" ELSE r.err
  /\ UNCHANGED <<aloneVars, snapshot, forks, devVolume, repo, tree,
                 buildSandbox, checkVars, step9Vars>>

\* What a run of the unit tests can leave in the source tree.
TestEffects == {{}, {"untracked"}}

\* Step 7, lines 321-332: whether the test command throws or not, main goes
\* on; a failure is logged as a warning.
\* Variant: the failure of the test command is thrown on.
afterTestsRethrows(passed) ==
  IF passed THEN [pc |-> "du", err |-> NoError, warnings |-> <<>>]
            ELSE [pc |-> "catch", err |-> "tests", warnings |-> <<>>]

afterTests(passed) ==
  [pc |-> "du", err |-> NoError,
   warnings |-> IF passed THEN <<>> ELSE <<"tests failed">>]

RunTests ==
  /\ rpc = "tests"
  /\ \E passed \in BOOLEAN, effect \in TestEffects :
       LET a == afterTests(passed)
       IN  /\ rpc' = a.pc
           /\ rerr' = a.err
           /\ refreshWarnings' = refreshWarnings \o a.warnings
           /\ testsPassed' = IF passed THEN "passed" ELSE "failed"
           /\ tree' = tree \cup effect
  /\ UNCHANGED <<aloneVars, snapshot, forks, devVolume, repo, buildSandbox,
                 dirtyFiles, step9Vars>>

\* Step 8, lines 341-345.
DiskUsage == Command("du", "kill")

\* Line 349.
\* Variant: main goes on to step 9 with the build sandbox left running.
KillSandboxSkipped ==
  /\ rpc = "kill"
  /\ rpc' = "getSnapshot"
  /\ UNCHANGED <<aloneVars, snapshot, forks, devVolume, repo, tree,
                 buildSandbox, checkVars, step9Vars, rerr>>

KillSandbox ==
  /\ rpc = "kill"
  /\ \E ok \in BOOLEAN :
       IF ok
         THEN /\ buildSandbox' = "killed"
              /\ rpc' = "getSnapshot"
              /\ UNCHANGED rerr
         ELSE /\ rpc' = "catch"
              /\ rerr' = "kill"
              /\ UNCHANGED buildSandbox
  /\ UNCHANGED <<aloneVars, snapshot, forks, devVolume, repo, tree, checkVars,
                 step9Vars>>

\* A platform call of step 9 as the log keeps it.
NoStatus == 0
NoFault == [status |-> NoStatus, code |-> "none"]
Call(name, target, res, e) ==
  [call |-> name, target |-> target, outcome |-> res, error |-> e]

\* Step 9, lines 368-369: without an existing snapshot main goes straight to
\* the creation of the new one.
\* Variant: the existing snapshot is not looked at and main goes to the
\* creation of the new one in every case.
GetSnapshotNeverDeletes ==
  /\ rpc = "getSnapshot"
  /\ \E ok \in BOOLEAN :
       IF ok
         THEN /\ rpc' = "createSnapshot"
              /\ UNCHANGED rerr
         ELSE /\ rpc' = "catch"
              /\ rerr' = "getSnapshot"
  /\ UNCHANGED <<aloneVars, snapshot, forks, devVolume, repo, tree,
                 buildSandbox, checkVars, step9Vars>>

GetSnapshot ==
  /\ rpc = "getSnapshot"
  /\ \E ok \in BOOLEAN :
       IF ok
         THEN /\ rpc' = IF snapshot # Null THEN "listForks" ELSE "createSnapshot"
              /\ UNCHANGED rerr
         ELSE /\ rpc' = "catch"
              /\ rerr' = "getSnapshot"
  /\ UNCHANGED <<aloneVars, snapshot, forks, devVolume, repo, tree,
                 buildSandbox, checkVars, step9Vars>>

\* Line 375: the volumes whose slug holds "review-tmp".
ListForks ==
  /\ rpc = "listForks"
  /\ \E ok \in BOOLEAN :
       IF ok
         THEN /\ leftover' = forks
              /\ rpc' = IF forks = {} THEN "deleteSnapshot" ELSE "deleteForks"
              /\ UNCHANGED rerr
         ELSE /\ rpc' = "catch"
              /\ rerr' = "listForks"
              /\ UNCHANGED leftover
  /\ UNCHANGED <<aloneVars, snapshot, forks, devVolume, repo, tree,
                 buildSandbox, checkVars, attempt, waits, refreshLog>>

\* The listed volumes are visited in the order of the list.
First(S) == CHOOSE v \in S : \A w \in S : v[2] <= w[2]

\* Lines 377-388: one round of the loop over the listed volumes.  A delete
\* that fails is skipped: the volume is still in use, or already gone
\* (lines 383-385).  The platform deletes a volume only if it exists and no
\* live Session holds it; a volume whose run is followed here is taken away
\* by that run alone, not by a third party.
DeleteFork ==
  /\ rpc = "deleteForks"
  /\ \E v \in {First(leftover)}, ok \in BOOLEAN, gone \in BOOLEAN :
       /\ ok => ~gone
       /\ ok => v \in forks
       /\ ok => \A r \in DOMAIN runState :
                  ~(runState[r] = "live" /\ runRoot[r] = v)
       /\ gone => \A r \in DOMAIN runSlug : runSlug[r] # v
       /\ refreshLog' =
            Append(refreshLog,
                   Call("volumes.delete", v, IF ok THEN "ok" ELSE "skipped",
                        NoFault))
       /\ forks' = IF ok \/ gone THEN forks \ {v} ELSE forks
       /\ leftover' = leftover \ {v}
       /\ rpc' = IF leftover = {v} THEN "deleteSnapshot" ELSE "deleteForks"
  /\ UNCHANGED <<aloneVars, snapshot, devVolume, repo, tree, buildSandbox,
                 checkVars, attempt, waits, rerr>>

\* The errors snapshots.delete is taken to raise: the snapshot is in use, a
\* server error, a client error, and an error that carries no status.
DeleteError ==
  { [status |-> 409, code |-> "SNAPSHOT_IN_USE"],
    [status |-> 500, code |-> "INTERNAL"],
    [status |-> 404, code |-> "NOT_FOUND"],
    [status |-> NoStatus, code |-> "SNAPSHOT_IN_USE"] }
InUse == [status |-> 409, code |-> "SNAPSHOT_IN_USE"]

\* Lines 409-413.
\* Variant: only server errors are retried.
isRetryableServerOnly(e) == e.status # NoStatus /\ e.status >= 500

isRetryable(e) ==
  e.status # NoStatus /\ (e.status >= 500 \/ e.code = "SNAPSHOT_IN_USE")

\* Line 416.
\* Variant: every wait is as long as the first.
delaySecFlat(n) == RetryDelaySec

delaySec(n) == n * RetryDelaySec

\* Lines 403-426: one round of the retry loop.  The platform refuses to
\* delete a snapshot that Forks depend on (lines 370-372).
\* Variant: a successful deletion leaves the old snapshot in place until the
\* new one is created over it.
DeleteSnapshotKeepsOld ==
  /\ rpc = "deleteSnapshot"
  /\ attempt' = attempt + 1
  /\ \E o \in {NoFault} \cup DeleteError :
       /\ o = NoFault => forks = {}
       /\ refreshLog' =
            Append(refreshLog,
                   Call("snapshots.delete", SNAPSHOT_SLUG,
                        IF o = NoFault THEN "ok" ELSE "failed", o))
       /\ IF o = NoFault
            THEN /\ rpc' = "createSnapshot"
                 /\ UNCHANGED <<snapshot, waits, rerr>>
            ELSE IF isRetryable(o) /\ attempt + 1 < MAX_RETRIES
                   THEN /\ waits' = Append(waits, delaySec(attempt + 1))
                        /\ UNCHANGED <<snapshot, rpc, rerr>>
                   ELSE /\ rpc' = "catch"
                        /\ rerr' = "deleteSnapshot"
                        /\ UNCHANGED <<snapshot, waits>>
  /\ UNCHANGED <<aloneVars, forks, devVolume, repo, tree, buildSandbox,
                 checkVars, leftover>>

DeleteSnapshot ==
  /\ rpc = "deleteSnapshot"
  /\ attempt' = attempt + 1
  /\ \E o \in {NoFault} \cup DeleteError :
       /\ o = NoFault => forks = {}
       /\ refreshLog' =
            Append(refreshLog,
                   Call("snapshots.delete", SNAPSHOT_SLUG,
                        IF o = NoFault THEN "ok" ELSE "failed", o))
       /\ IF o = NoFault
            THEN /\ snapshot' = Null
                 /\ rpc' = "createSnapshot"
                 /\ UNCHANGED <<waits, rerr>>
            ELSE IF isRetryable(o) /\ attempt + 1 < MAX_RETRIES
                   THEN /\ waits' = Append(waits, delaySec(attempt + 1))
                        /\ UNCHANGED <<snapshot, rpc, rerr>>
                   ELSE /\ rpc' = "catch"
                        /\ rerr' = "deleteSnapshot"
                        /\ UNCHANGED <<snapshot, waits>>
  /\ UNCHANGED <<aloneVars, forks, devVolume, repo, tree, buildSandbox,
                 checkVars, leftover>>

\* Lines 431-433: the snapshot is taken of the volume as it is.
CreateSnapshot ==
  /\ rpc = "createSnapshot"
  /\ \E ok \in BOOLEAN :
       /\ refreshLog' =
            Append(refreshLog,
                   Call("volumes.snapshot", SNAPSHOT_SLUG,
                        IF ok THEN "ok" ELSE "failed", NoFault))
       /\ IF ok
            THEN /\ snapshot' = Snapshot(tree, runNo)
                 /\ rpc' = "done"
                 /\ UNCHANGED rerr
            ELSE /\ rpc' = "catch"
                 /\ rerr' = "createSnapshot"
                 /\ UNCHANGED snapshot
  /\ UNCHANGED <<aloneVars, forks, devVolume, repo, tree, buildSandbox,
                 checkVars, attempt, waits, leftover>>

\* Lines 440-451: main() resolves and the process ends with status 0.
RefreshDone ==
  /\ rpc = "done"
  /\ rpc' = "exit"
  /\ rexit' = 0
  /\ UNCHANGED <<mainVars, inputVars, runsVars, platformVars, runNo, devVolume,
                 repo, tree, buildEffect, buildSandbox, checkVars, step9Vars,
                 rerr>>

\* Lines 453-457: main() rejected.
\* Variant: the handler withdraws the snapshot before the process ends.
RefreshCatchWithdraws ==
  /\ rpc = "catch"
  /\ rpc' = "exit"
  /\ rexit' = 1
  /\ snapshot' = Null
  /\ UNCHANGED <<mainVars, inputVars, runsVars, now, forks, runNo, devVolume,
                 repo, tree, buildEffect, buildSandbox, checkVars, step9Vars,
                 rerr>>

RefreshCatch ==
  /\ rpc = "catch"
  /\ rpc' = "exit"
  /\ rexit' = 1
  /\ UNCHANGED <<mainVars, inputVars, runsVars, platformVars, runNo, devVolume,
                 repo, tree, buildEffect, buildSandbox, checkVars, step9Vars,
                 rerr>>

\* update-volume is started again (lines 7-9: "run once (or periodically)")
\* on the same upstream source; the platform and the volume are as the run
\* before left them.
RefreshAgain ==
  /\ rpc = "exit"
  /\ runNo < MaxRefreshRuns
  /\ runNo' = runNo + 1
  /\ rpc' = "volume"
  /\ dirtyFiles' = {}
  /\ testsPassed' = "none"
  /\ attempt' = 0
  /\ waits' = <<>>
  /\ leftover' = {}
  /\ refreshLog' = <<>>
  /\ refreshWarnings' = <<>>
  /\ rerr' = NoError
  /\ rexit' = "none"
  /\ UNCHANGED <<mainVars, inputVars, runsVars, platformVars, devVolume, repo,
                 tree, buildEffect, buildSandbox>>

NextRefresh ==
  \/ EnsureVolume
  \/ KillStale
  \/ BootSandbox
  \/ PrepareDirs
  \/ CheckRepoState
  \/ CloneRepo
  \/ UpdateRepo
  \/ InstallPnpm
  \/ InstallDeps
  \/ VerifyStore
  \/ Build
  \/ CheckClean
  \/ ShowDiff
  \/ ResetTree
  \/ VerifyClean
  \/ RunTests
  \/ DiskUsage
  \/ KillSandbox
  \/ GetSnapshot
  \/ ListForks
  \/ DeleteFork
  \/ DeleteSnapshot
  \/ CreateSnapshot
  \/ RefreshDone
  \/ RefreshCatch
  \/ RefreshAgain

SpecRefresh == InitRefresh /\ [][NextRefresh]_vars

\* ------------------------------------------------------------------------
\* Properties of update-volume
\* ------------------------------------------------------------------------
\* The BaseImage on the platform was published by a run of update-volume
\* looked at here.
Published == snapshot # Null /\ snapshot[1].run >= 1

\* C21: a dirty BaseImage is never published.  Whenever a run of
\* update-volume has taken the snapshot, the source tree in it is clean; and
\* a run that found the tree still dirty after the reset has failed without
\* deleting or creating a snapshot.
C21_DirtyBaseImageNeverPublished ==
  /\ Published => snapshot[1].tree = {}
  /\ rerr = "stillDirty" => refreshLog = <<>>

\* C22: a failure of the unit tests is not fatal to update-volume.  It is
\* logged as a warning, the error the run ends with (if any) is not the
\* tests', and a run that goes through the later steps publishes the
\* BaseImage and exits with status 0.
C22_TestFailureNotFatal ==
  testsPassed = "failed" =>
    /\ \E i \in DOMAIN refreshWarnings : refreshWarnings[i] = "tests failed"
    /\ rerr # "tests"
    /\ rpc = "done" => snapshot = Snapshot(tree, runNo)
    /\ (rpc = "exit" /\ rerr = NoError) => (rexit = 0 /\ snapshot # Null /\ snapshot[1].run = runNo)

\* C22: the tests failed, and the run published its BaseImage and ended
\* with status 0.
C22_Witness ==
  /\ testsPassed = "failed"
  /\ rpc = "exit"
  /\ rexit = 0
  /\ snapshot # Null
  /\ snapshot[1].run = runNo

IsSnapshotDelete(c) == c.call = "snapshots.delete"
DeleteAttempts == SelectSeq(refreshLog, IsSnapshotDelete)

\* The attempts so far were all rejected because the snapshot is in use.
OnlyInUse(n) ==
  /\ Len(DeleteAttempts) >= n
  /\ \A i \in 1..n : DeleteAttempts[i].error = InUse

\* C23: a snapshot deletion rejected as "in use" three times is tried
\* again each time (after 5, 10 and 15 seconds), and when the fourth
\* attempt succeeds the run goes on to create the new snapshot: the
\* deletion is never the error the run ends with, and the run that creates
\* the snapshot ends with status 0.
C23_InUseThriceThenDeleted ==
  /\ \A n \in 1..3 :
       (OnlyInUse(n) /\ Len(DeleteAttempts) = n) =>
         /\ rpc = "deleteSnapshot"
         /\ rerr = NoError
         /\ waits = [i \in 1..n |-> RetryDelaySec * i]
  /\ (OnlyInUse(3) /\ Len(DeleteAttempts) = 4 /\ DeleteAttempts[4].outcome = "ok") =>
       /\ rpc \in {"createSnapshot", "done", "catch", "exit"}
       /\ rerr \in {NoError, "createSnapshot"}
       /\ rpc = "done" => snapshot = Snapshot(tree, runNo)
       /\ (rpc = "exit" /\ rerr = NoError) => (rexit = 0 /\ snapshot # Null /\ snapshot[1].run = runNo)

\* C23: three rejections, deletion at the fourth attempt, snapshot created,
\* status 0.
C23_Witness ==
  /\ OnlyInUse(3)
  /\ Len(DeleteAttempts) = 4
  /\ DeleteAttempts[4].outcome = "ok"
  /\ rpc = "exit"
  /\ rexit = 0
  /\ snapshot # Null
  /\ snapshot[1].run = runNo

CallOrder(c) ==
  IF c.call = "volumes.delete" THEN 1
  ELSE IF c.call = "snapshots.delete" THEN 2 ELSE 3

\* C24: the order of the replacement.  Every leftover Fork listed has been
\* visited before the first attempt at deleting the old snapshot, a Fork
\* deletion that fails is skipped and the run goes on, no Fork is deleted
\* after an attempt at the snapshot, and the new snapshot is created last,
\* when the old one is gone: deleted successfully just before, or never
\* there.
C24_ReplacementOrder ==
  /\ rpc = "deleteSnapshot" => leftover = {}
  /\ rpc = "createSnapshot" => snapshot = Null
  /\ \A i, j \in DOMAIN refreshLog :
       i < j => CallOrder(refreshLog[i]) <= CallOrder(refreshLog[j])
  /\ \A i \in DOMAIN refreshLog :
       /\ (refreshLog[i].outcome = "skipped" /\ i = Len(refreshLog)) =>
            (rpc \in {"deleteForks", "deleteSnapshot"} /\ rerr = NoError)
       /\ refreshLog[i].call = "volumes.snapshot" =>
            /\ i = Len(refreshLog)
            /\ \A k \in 1..(i - 1) :
                 refreshLog[k].call = "snapshots.delete" =>
                   (refreshLog[k].outcome = "ok") = (k = i - 1)

\* C24: one Fork deletion was skipped, another went through, the old
\* snapshot was deleted and the new one created.
C24_Witness ==
  /\ Len(refreshLog) = 4
  /\ refreshLog[1].outcome = "skipped"
  /\ refreshLog[2].call = "volumes.delete"
  /\ refreshLog[3].call = "snapshots.delete"
  /\ refreshLog[4].call = "volumes.snapshot"
  /\ refreshLog[4].outcome = "ok"

\* C25: update-volume run twice in a row on the same upstream source
\* publishes a BaseImage with a clean tree both times, and the status check
\* after the build of the second run reports nothing.
C25_SecondRunFindsNothing ==
  /\ Published => snapshot[1].tree = {}
  /\ (runNo = 2 /\ snapshot # Null /\ snapshot[1].run = 1) => dirtyFiles = {}

\* ------------------------------------------------------------------------
\* Properties of the Fork and the BaseImage in an interactive run
\* ------------------------------------------------------------------------
\* close() has closed the Session and its call to delete the Fork failed.
ForkDeleteFailed ==
  /\ closeLog = <<"sandbox.close", "volumes.delete">>
  /\ volume = "created"

\* C26: destroying the Fork is best-effort.  A step of teardown in which
\* the Session closes and the deletion of the Fork fails logs a warning
\* naming the Fork and returns: the pending error, the reported outcome and
\* the result stay as they were, and the exit status is the one the run
\* had earned before.
C26_ForkDeleteBestEffort ==
  [][(pc = "finally" /\ ForkDeleteFailed') =>
       /\ closeMessages' = <<[kind |-> "warn", slug |-> volumeSlug]>>
       /\ err' = err
       /\ outcome' = outcome
       /\ result' = result
       /\ exitCode' = (IF err = NoError THEN 0 ELSE 1)
       /\ pc' = "exit"]_vars

\* C26: a run that posted its review, whose Fork could not be deleted, and
\* which ended with status 0.
C26_Witness ==
  /\ pc = "exit"
  /\ ForkDeleteFailed
  /\ outcome = "Review posted"
  /\ closeMessages = <<[kind |-> "warn", slug |-> volumeSlug]>>
  /\ exitCode = 0

\* C28: an interactive run never changes the BaseImage: no step of main
\* (createSandbox, setupSandbox, runReview, close included) deletes,
\* replaces or re-creates the snapshot, and none is a step of update-volume.
C28_BaseImageUntouched ==
  [][snapshot' = snapshot /\ UNCHANGED refreshVars]_vars

\* C28: a run that made its Fork from the snapshot, went through review and
\* teardown, and deleted the Fork; the snapshot is the one it started from.
C28_Witness ==
  /\ pc = "exit"
  /\ volume = "deleted"
  /\ session = "closed"
  /\ closeLog = <<"sandbox.close", "volumes.delete">>
  /\ snapshot = Snapshot({}, 0)

\* ========================================================================
\* Interactive runs side by side: createSandbox and close() of each run
\* (part_002 lines 28-70) against one platform and one clock
\* ========================================================================
MaxRuns == 2            \* interactive runs in progress at once
MaxClock == 2           \* clock readings 1..MaxClock

Runs == 1..MaxRuns

InitForks ==
  /\ InitNoRun
  /\ InitInputs
  /\ InitNoRefresh
  /\ now = 1
  /\ snapshot = Snapshot({}, 0)
  /\ forks = {}
  /\ runSlug = [r \in Runs |-> NoSlug]
  /\ runState = [r \in Runs |-> "start"]
  /\ runRoot = [r \in Runs |-> NoSlug]

\* Time passes.
Tick ==
  /\ now < MaxClock
  /\ now' = now + 1
  /\ UNCHANGED <<mainVars, inputVars, runsVars, refreshVars, snapshot, forks>>

\* Lines 36-42: the slug is computed from the clock and the volume is
\* created from the snapshot.  What the platform does with a slug that is
\* taken is not the repository's to decide: it refuses, or answers with the
\* volume of that name.  Without the snapshot there is nothing to create the
\* volume from.
RunCreateVolume(r) ==
  /\ runState[r] = "start"
  /\ \E created \in BOOLEAN :
       /\ created => snapshot # Null
       /\ runSlug' = [runSlug EXCEPT ![r] = ForkSlug(now)]
       /\ runState' = [runState EXCEPT ![r] = IF created THEN "volume" ELSE "failed"]
       /\ forks' = IF created THEN forks \cup {ForkSlug(now)} ELSE forks
  /\ UNCHANGED <<mainVars, inputVars, refreshVars, now, snapshot, runRoot>>

\* Lines 47-52: the Session boots with the run's volume as root.  A volume
\* is locked by the Session that holds it, and a volume that is gone cannot
\* be booted from.
RunBootSession(r) ==
  /\ runState[r] = "volume"
  /\ \E booted \in BOOLEAN :
       /\ booted => runSlug[r] \in forks
       /\ booted =>
            \A q \in Runs : ~(runState[q] = "live" /\ runRoot[q] = runSlug[r])
       /\ runState' = [runState EXCEPT ![r] = IF booted THEN "live" ELSE "failed"]
       /\ runRoot' = [runRoot EXCEPT ![r] = IF booted THEN runSlug[r] ELSE NoSlug]
  /\ UNCHANGED <<mainVars, inputVars, refreshVars, platformVars, runSlug>>

\* close(), lines 58-68, with the Session closing.
RunClose(r) ==
  /\ runState[r] = "live"
  /\ \E volumeDeletes \in BOOLEAN :
       forks' = IF volumeDeletes THEN forks \ {runSlug[r]} ELSE forks
  /\ runState' = [runState EXCEPT ![r] = "closed"]
  /\ UNCHANGED <<mainVars, inputVars, refreshVars, now, snapshot, runSlug, runRoot>>

NextForks ==
  \/ Tick
  \/ \E r \in Runs : RunCreateVolume(r)
  \/ \E r \in Runs : RunBootSession(r)
  \/ \E r \in Runs : RunClose(r)

SpecForks == InitForks /\ [][NextForks]_vars

\* C27: no two runs share a Fork.  The slugs any two runs gave their Forks
\* are distinct, also when both read the same clock value, and the volume a
\* run's Session booted from is the one the run created.
C27_ForksDistinct ==
  /\ \A r, q \in Runs :
       (r # q /\ runSlug[r] # NoSlug /\ runSlug[q] # NoSlug) =>
         runSlug[r] # runSlug[q]
  /\ \A r \in Runs : runRoot[r] \in {NoSlug, runSlug[r]}

\* ========================================================================
\* The approval prompt: confirmAction (agent.ts 202-231) and the text
\* prompt of the earlier runReview (agent.ts 466-505, part_005 36-44)
\* ========================================================================
MaxAnswerLen == 3       \* characters in the line the human types

\* A line is a sequence of characters.
Chars == {"y", "Y", "e", "E", "s", "n", " "}
Typed == SeqsUpTo(Chars, MaxAnswerLen)

\* String.prototype.trim on such a line.
RECURSIVE trimStart(_)
trimStart(line) ==
  IF line # <<>> /\ Head(line) = " " THEN trimStart(Tail(line)) ELSE line

RECURSIVE trimEnd(_)
trimEnd(line) ==
  IF line # <<>> /\ line[Len(line)] = " "
    THEN trimEnd(SubSeq(line, 1, Len(line) - 1))
    ELSE line

trim(line) == trimEnd(trimStart(line))

\* String.prototype.toLowerCase.
lowerChar(ch) ==
  IF ch = "Y" THEN "y" ELSE IF ch = "E" THEN "e" ELSE IF ch = "S" THEN "s" ELSE ch
toLowerCase(line) == [i \in DOMAIN line |-> lowerChar(line[i])]

\* prompt() (part_005 lines 36-44) resolves with the line trimmed and in
\* lower case.
\* Variant: the line is not trimmed.
promptNoTrim(line) == toLowerCase(line)

prompt(line) == toLowerCase(trim(line))

\* agent.ts line 477.
isYes(text) == text = <<"y">> \/ text = <<"y", "e", "s">>

TheReview == [summary |-> "Thanks!", verdict |-> "comment", comments |-> <<>>]

\* runReview at the start of phase 2 with a proposal captured from a stream
\* of one message; the human is about to type a line or to pick an answer.
InitPrompt ==
  /\ env = [ANTHROPIC_API_KEY |-> TRUE, GITHUB_TOKEN |-> TRUE]
  /\ pr = SameOriginPR
  /\ http = <<ghFetch(TRUE, 200, 200)>>
  /\ execLog = setupSandbox(SameOriginPR, SetupOk).log
  /\ depsInstalled = TRUE
  /\ systemPrompt = buildSystemPrompt(SameOriginPR, [depsInstalled |-> TRUE])
  /\ pc = "phase2"
  /\ fetches = 1
  /\ volume = "created"
  /\ session = "live"
  /\ closeCalls = 0
  /\ closeLog = <<>>
  /\ seenMessageIds = {"m1"}
  /\ pendingReview = Some(TheReview)
  /\ rendered = <<Line("submit_review", "submit_review")>>
  /\ delivered = 1
  /\ arrived = [i \in MessageIds \cup {NoId} |-> IF i = "m1" THEN 1 ELSE 0]
  /\ processed = [i \in MessageIds \cup {NoId} |-> IF i = "m1" THEN 1 ELSE 0]
  /\ firstCaptured = Some(TheReview)
  /\ streamEnded = TRUE
  /\ displayed = <<>>
  /\ prompts = 0
  /\ answer = "none"
  /\ postCalls = 0
  /\ requests = <<>>
  /\ result = "none"
  /\ outcome = "none"
  /\ err = NoError
  /\ exitCode = 0
  /\ volumeSlug = ForkSlug(1)
  /\ closeMessages = <<>>
  /\ now = 1
  /\ snapshot = Snapshot({}, 0)
  /\ forks = {ForkSlug(1)}
  /\ typed \in Typed
  /\ textAnswer = Null
  /\ inputMessage = Null
  /\ InitRuns
  /\ InitNoRefresh

\* agent.ts lines 473-475 with part_005 lines 36-44: the line the human
\* typed comes back from prompt().
TextPrompt ==
  /\ pc = "confirm"
  /\ textAnswer' = Some(prompt(typed))
  /\ pc' = "answered"
  /\ UNCHANGED <<env, pr, http, execLog, systemPrompt, fetches, sandboxVars,
                 depsInstalled, streamVars, gateVars, result, outcome, err,
                 exitCode, typed, inputMessage, runsVars, refreshVars,
                 platformVars>>

\* agent.ts lines 477-505: "y" and "yes" lead to the post, anything else to
\* "Review cancelled" and null.
TextDecide ==
  /\ pc = "answered"
  /\ IF isYes(textAnswer[1])
       THEN /\ pc' = "post"
            /\ UNCHANGED <<rendered, result>>
       ELSE /\ rendered' = Append(rendered, Line("cancelled", ""))
            /\ result' = "null"
            /\ pc' = "done"
  /\ UNCHANGED <<env, pr, http, execLog, systemPrompt, fetches, sandboxVars,
                 depsInstalled, seenMessageIds, pendingReview, delivered,
                 arrived, processed, firstCaptured, streamEnded, gateVars,
                 outcome, err, exitCode, inputVars, runsVars, refreshVars,
                 platformVars>>

\* The human interrupts the text prompt: the question is never answered
\* (part_005 lines 38-43 resolve only in the callback of rl.question), and
\* the process ends without runReview going on.
TextCancel ==
  /\ pc = "confirm"
  /\ answer' = "cancel"
  /\ pc' = "exit"
  /\ exitCode' \in {0, 1}
  /\ UNCHANGED <<env, pr, http, execLog, systemPrompt, fetches, sandboxVars,
                 depsInstalled, streamVars, displayed, prompts, postCalls,
                 requests, result, outcome, err, inputVars, runsVars,
                 refreshVars, platformVars>>

NextPrompt ==
  \/ Phase2
  \/ Confirm
  \/ ConfirmThrow
  \/ TextPrompt
  \/ TextDecide
  \/ TextCancel
  \/ PostReview
  \/ Done
  \/ Finally

SpecPrompt == InitPrompt /\ [][NextPrompt]_vars

\* The gate is at APPROVED: the post is next or was made.
Approved == pc = "post" \/ postCalls > 0

\* The human has answered and the answer was acted on.
Decided == answer \in HumanInputs \/ (textAnswer # Null /\ pc # "answered")

Spaces(n) == [i \in 1..n |-> " "]

\* The lines that say yes: "y" or "yes" in any case, with spaces around.
YesLines ==
  LET core == {<<a>> : a \in {"y", "Y"}}
                \cup {<<a, b, c>> : a \in {"y", "Y"}, b \in {"e", "E"}, c \in {"s", "S"}}
  IN  {Spaces(i) \o w \o Spaces(j) : i \in 0..MaxAnswerLen, j \in 0..MaxAnswerLen, w \in core}

\* C29: the gate moves to APPROVED only on an explicit affirmative answer.
\* A post is made or about to be made only after the answer yes; after any
\* other answer (no, an empty line, any other text, an interrupt) nothing is
\* posted and runReview does not return a review; and with the text prompt
\* the answer counts as yes exactly when the typed line, trimmed and in
\* lower case, is "y" or "yes".
C29_ApprovedOnlyOnYes ==
  /\ Approved => (answer = "yes" \/ (textAnswer # Null /\ typed \in YesLines))
  /\ (Decided /\ answer # "yes" /\ ~(textAnswer # Null /\ typed \in YesLines)) =>
       /\ ~Approved
       /\ requests = <<>>
       /\ result # "review"
  /\ (textAnswer # Null /\ pc # "answered") => (Approved <=> typed \in YesLines)

\* C29: the line " Y" typed at the text prompt, and the review posted.
C29_Witness ==
  /\ typed = <<" ", "Y">>
  /\ textAnswer = Some(<<"y">>)
  /\ postCalls = 1
  /\ result = "review"

\* ========================================================================
\* The body of the stream loop (agent.ts 126-187) on one message
\* ========================================================================
\* The agent has been set up and the stream is about to deliver the message
\* inputMessage, any message of Message.
InitRender ==
  /\ GateStart
  /\ depsInstalled
  /\ typed = <<>>
  /\ textAnswer = Null
  /\ inputMessage \in {Some(m) : m \in Message}

RenderMessage ==
  /\ pc = "stream"
  /\ delivered < Len(inputMessage)
  /\ Deliver(inputMessage[delivered + 1])

NextRender ==
  \/ StartAgent
  \/ RenderMessage
  \/ StreamEnd

SpecRender == InitRender /\ [][NextRender]_vars

NotTodos(tc) == tc.name # "write_todos"

\* C30: write_todos is never displayed.  Once the loop body has run on a
\* message, no line written names write_todos; an AI message with tool
\* calls has written one line per call that is not write_todos, in the
\* order of the calls; and a tool result has written a line unless it is
\* the result of write_todos.
C30_TodosNeverRendered ==
  delivered = 1 =>
    LET m == inputMessage[1]
        shown == SelectSeq(m.tool_calls, NotTodos)
    IN  /\ \A i \in DOMAIN rendered : rendered[i].name # "write_todos"
        /\ (m.type = "ai" /\ m.tool_calls # <<>>) =>
             /\ Len(rendered) = Len(shown)
             /\ \A i \in DOMAIN shown : rendered[i].name = shown[i].name
        /\ m.type = "tool" => ((rendered = <<>>) <=> (m.name = "write_todos"))

\* C30: a message calling write_todos and execute has been displayed as
\* the one line of execute.
C30_Witness ==
  /\ delivered = 1
  /\ inputMessage[1].type = "ai"
  /\ Len(inputMessage[1].tool_calls) = 2
  /\ inputMessage[1].tool_calls[1].name = "write_todos"
  /\ inputMessage[1].tool_calls[2].name = "execute"
  /\ rendered = <<Line("tool_call", "execute")>>

\* ------------------------------------------------------------------------
\* The stream loop on a stream of two messages with tool calls
\* ------------------------------------------------------------------------
\* AI messages with tool calls; a submit_review call proposes TheReview.
OrderMessage ==
  {m \in Message :
     /\ m.type = "ai"
     /\ m.tool_calls # <<>>
     /\ \A i \in DOMAIN m.tool_calls :
          m.tool_calls[i].name = "submit_review" => m.tool_calls[i].args = TheReview}

\* Positions of the two messages of the stream.
StreamPair == 1..2

InitOrder ==
  /\ GateStart
  /\ depsInstalled
  /\ typed = <<>>
  /\ textAnswer = Null
  /\ inputMessage \in [StreamPair -> OrderMessage]

SpecOrder == InitOrder /\ [][NextRender]_vars

\* The names of the calls of the first k messages of the stream that are to
\* be seen, in the order of arrival: message by message, call by call, a
\* message whose id arrived before left out.
RECURSIVE ArrivalOrder(_)
ArrivalOrder(k) ==
  IF k = 0 THEN <<>>
  ELSE LET m == inputMessage[k]
           replayed == m.id # NoId /\ \E j \in 1..(k - 1) : inputMessage[j].id = m.id
           names == [i \in DOMAIN m.tool_calls |-> m.tool_calls[i].name]
       IN  ArrivalOrder(k - 1)
             \o (IF replayed THEN <<>> ELSE SelectSeq(names, LAMBDA n : n # "write_todos"))

\* C31: tool calls are displayed in the order in which they arrive: the
\* lines written so far name, one by one, the displayed calls of the
\* messages delivered so far, an earlier message before a later one and
\* an earlier call of a message before a later call of it.
C31_DisplayInArrivalOrder ==
  [i \in DOMAIN rendered |-> rendered[i].name] = ArrivalOrder(delivered)

\* C31: execute and submit_review of the first message and execute of the
\* second have been displayed, in that order.
C31_Witness ==
  /\ delivered = 2
  /\ inputMessage[1].id # inputMessage[2].id
  /\ [i \in DOMAIN rendered |-> rendered[i].name] = <<"execute", "submit_review", "execute">>
  /\ Len(inputMessage[1].tool_calls) = 2

\* ------------------------------------------------------------------------
\* Properties of the snapshot replacement (step 9 of update-volume)
\* ------------------------------------------------------------------------
\* The error is one the retry is meant for: a server error, or the snapshot
\* is in use.
RetryableError(e) == e.status >= 500 \/ e.code = "SNAPSHOT_IN_USE"

\* The log holds a call that creates the snapshot.
SnapshotCreateCalled ==
  \E i \in DOMAIN refreshLog : refreshLog[i].call = "volumes.snapshot"

\* C33: the deletion of the old snapshot is bounded.  At most 5 attempts
\* are made; an attempt is followed by another one only if it failed with a
\* retryable error (status >= 500 or code SNAPSHOT_IN_USE), and the wait
\* before the next attempt is 5 seconds times the number of the attempt, so
\* the waits strictly increase; an error that is not retryable ends the
\* run with that error and without a wait after it; when the fifth attempt
\* fails the run ends with the error and no snapshot is created.
C33_DeletionBounded ==
  LET n == Len(DeleteAttempts)
  IN  /\ n <= MAX_RETRIES
      /\ n = attempt
      /\ Len(waits) \in {n - 1, n} \cap (0..(MAX_RETRIES - 1))
      /\ \A i \in DOMAIN waits :
           /\ DeleteAttempts[i].outcome = "failed"
           /\ RetryableError(DeleteAttempts[i].error)
           /\ waits[i] = 5 * i
           /\ i > 1 => waits[i] > waits[i - 1]
      /\ \A i \in 1..n :
           (DeleteAttempts[i].outcome = "failed"
              /\ ~RetryableError(DeleteAttempts[i].error)) =>
             /\ i = n
             /\ Len(waits) = n - 1
             /\ rpc \in {"catch", "exit"}
             /\ rerr = "deleteSnapshot"
      /\ (n = MAX_RETRIES /\ DeleteAttempts[n].outcome = "failed") =>
             /\ rpc \in {"catch", "exit"}
             /\ rerr = "deleteSnapshot"
             /\ ~SnapshotCreateCalled
             /\ snapshot # Null
             /\ snapshot[1].run # runNo

\* C33: five attempts were all rejected with a retryable error, the run
\* waited 5, 10, 15 and 20 seconds between them and ended with the error
\* of the deletion.
C33_Witness ==
  /\ Len(DeleteAttempts) = MAX_RETRIES
  /\ \A i \in DOMAIN DeleteAttempts : RetryableError(DeleteAttempts[i].error)
  /\ waits = <<5, 10, 15, 20>>
  /\ rpc = "exit"
  /\ rerr = "deleteSnapshot"
  /\ rexit = 1
  /\ \E i \in DOMAIN DeleteAttempts : DeleteAttempts[i].error.status = 500

\* ------------------------------------------------------------------------
\* Properties of the Fork's teardown in an interactive run
\* ------------------------------------------------------------------------
\* The run has called the platform to delete its Fork.
ForkDeleteAttempted ==
  \E i \in DOMAIN closeLog : closeLog[i] = "volumes.delete"

\* C34: a Fork created by createSandbox is never left without an attempt
\* to destroy it by the run that created it.  When the run has ended and
\* its Fork was created, whether or not the Session booted from it, the
\* run has called the platform to delete that Fork.
C34_ForkDestructionAttempted ==
  (pc = "exit" /\ volume # "none") => ForkDeleteAttempted

\* ========================================================================
\* update-volume's step 9 side by side with an interactive run
\* (part_006 lines 364-434 against part_002 lines 28-70)
\* ========================================================================
\* The interactive run followed next to update-volume.
TheRun == 1

\* update-volume has killed its build sandbox (line 349) and is about to
\* look for the existing snapshot; the interactive run has not started.
InitCleanup ==
  /\ InitNoRun
  /\ InitInputs
  /\ now = 1
  /\ snapshot = Snapshot({}, 0)
  /\ forks = {}
  /\ runSlug = [r \in Runs |-> NoSlug]
  /\ runState = [r \in Runs |-> "start"]
  /\ runRoot = [r \in Runs |-> NoSlug]
  /\ rpc = "getSnapshot"
  /\ runNo = 1
  /\ devVolume = "bootable"
  /\ repo = "exists"
  /\ tree = {}
  /\ buildEffect = {}
  /\ buildSandbox = "killed"
  /\ dirtyFiles = {}
  /\ testsPassed = "passed"
  /\ attempt = 0
  /\ waits = <<>>
  /\ leftover = {}
  /\ refreshLog = <<>>
  /\ refreshWarnings = <<>>
  /\ rerr = NoError
  /\ rexit = "none"

NextCleanup ==
  \/ Tick
  \/ RunCreateVolume(TheRun)
  \/ RunBootSession(TheRun)
  \/ RunClose(TheRun)
  \/ GetSnapshot
  \/ ListForks
  \/ DeleteFork
  \/ DeleteSnapshot
  \/ CreateSnapshot
  \/ RefreshDone
  \/ RefreshCatch

SpecCleanup == InitCleanup /\ [][NextCleanup]_vars

\* The run has created its Fork and has not closed yet.
InProgress(r) == runState[r] \in {"volume", "live"}

\* C35: update-volume's cleanup never destroys the Fork of an interactive
\* run that is still in progress.  Under every interleaving, a step that
\* takes the Fork of a run in progress off the platform is the close() of
\* that run.
C35_CleanupSparesRunInProgress ==
  [][\A r \in Runs :
       (InProgress(r) /\ runSlug[r] \in forks /\ runSlug[r] \notin forks') =>
         runState'[r] = "closed"]_vars

\* ------------------------------------------------------------------------
\* Properties of what runReview returns and main reports
\* ------------------------------------------------------------------------
\* GitHub has accepted the review.
PostSucceeded ==
  \E i \in WriteCalls : http[i].returned > 0 /\ Ok(ReturnedStatus(http[i]))

\* runReview has returned or thrown.
Returned == pc \in {"done", "finally", "exit"} /\ result # "none"

\* C36: runReview returns the proposal if and only if the post succeeded.
\* It returns null when no proposal was captured, when the human rejected
\* and when the post failed; main reports "Review posted" exactly when the
\* review was posted; and after a failed post the run goes through
\* teardown with "No review was posted.", the post's failure never being
\* the error main ends with.
C36_ReturnsReviewIffPosted ==
  /\ (result = "review") <=> PostSucceeded
  /\ result = "review" => (pendingReview # Null /\ answer = "yes")
  /\ Returned =>
       /\ (pendingReview = Null /\ result # "threw") => result = "null"
       /\ answer = "no" => result = "null"
       /\ (postCalls = 1 /\ ~PostSucceeded) => result = "null"
  /\ (outcome = "Review posted") <=> (PostSucceeded /\ pc \in {"finally", "exit"})
  /\ (postCalls = 1 /\ ~PostSucceeded /\ pc \in {"finally", "exit"}) =>
       /\ outcome = "No review was posted."
       /\ pc = "finally" => err = NoError
       /\ pc = "exit" =>
            /\ closeCalls = 1
            /\ err \in {NoError, "close"}
            /\ err = NoError => exitCode = 0

\* C36: the human approved, GitHub refused the post, main reported that
\* no review was posted, closed the sandbox and ended with status 0.
C36_Witness ==
  /\ pc = "exit"
  /\ postCalls = 1
  /\ ~PostSucceeded
  /\ result = "null"
  /\ outcome = "No review was posted."
  /\ closeLog = <<"sandbox.close", "volumes.delete">>
  /\ err = NoError
  /\ exitCode = 0

\* ------------------------------------------------------------------------
\* Properties of the order inside close()
\* ------------------------------------------------------------------------
\* close() was called and its Session close raised.
SessionCloseRaised == closeCalls >= 1 /\ session # "closed"

\* C37: in close() the deletion of the Fork is attempted only after the
\* Session close call has completed: every call to delete the Fork comes
\* right after a Session close, and that close succeeded.  When the Session
\* close raises, the deletion of the Fork is not attempted, the Fork stays,
\* and the error reaches main, which ends with status 1.
C37_DeleteAfterSessionClose ==
  /\ \A i \in DOMAIN closeLog :
       closeLog[i] = "volumes.delete" =>
         /\ i > 1
         /\ closeLog[i - 1] = "sandbox.close"
         /\ session = "closed"
  /\ SessionCloseRaised =>
       /\ closeLog = <<"sandbox.close">>
       /\ closeMessages = <<>>
       /\ volume = "created"
       /\ volumeSlug \in forks
       /\ err = "close"
       /\ exitCode = 1

\* C37: a run whose Session close raised: the Fork is still there, no
\* deletion was tried, and the process ended with status 1.
C37_Witness ==
  /\ pc = "exit"
  /\ SessionCloseRaised
  /\ session = "live"
  /\ closeLog = <<"sandbox.close">>
  /\ volumeSlug \in forks
  /\ err = "close"
  /\ exitCode = 1

\* ------------------------------------------------------------------------
\* Further properties of the snapshot replacement
\* ------------------------------------------------------------------------
\* The log holds a successful deletion of the old snapshot.
SnapshotDeleted ==
  \E i \in DOMAIN refreshLog :
    refreshLog[i].call = "snapshots.delete" /\ refreshLog[i].outcome = "ok"

\* C38: the replacement of the BaseImage is not atomic.  The old snapshot
\* is deleted before the new one is created: once the deletion has
\* succeeded and until a creation succeeds no snapshot with the published
\* slug exists, the creation call comes after the successful deletion in
\* the log, and a run whose creation fails after a successful deletion
\* ends with status 1 and no BaseImage published.
C38_ReplacementNotAtomic ==
  /\ rpc = "createSnapshot" => snapshot = Null
  /\ (SnapshotDeleted /\ ~(rpc \in {"done", "exit"} /\ rerr = NoError)) =>
       snapshot = Null
  /\ \A i, j \in DOMAIN refreshLog :
       (refreshLog[i].call = "volumes.snapshot"
          /\ refreshLog[j].call = "snapshots.delete") => j < i
  /\ (SnapshotDeleted /\ rerr = "createSnapshot") =>
       /\ snapshot = Null
       /\ rpc \in {"catch", "exit"}
       /\ rpc = "exit" => rexit = 1

\* C38: the old snapshot was deleted, the creation of the new one failed,
\* and the run ended with status 1 and no snapshot on the platform.
C38_Witness ==
  /\ SnapshotDeleted
  /\ refreshLog[Len(refreshLog)].call = "volumes.snapshot"
  /\ refreshLog[Len(refreshLog)].outcome = "failed"
  /\ rerr = "createSnapshot"
  /\ rpc = "exit"
  /\ rexit = 1
  /\ snapshot = Null

\* ------------------------------------------------------------------------
\* Properties of update-volume before step 9
\* ------------------------------------------------------------------------
\* The steps of main up to and including the clean-tree verification
\* (steps 1 to 6b), and the errors a run that fails in them ends with.
EarlySteps ==
  {"volume", "stale", "boot", "dirs", "repoState", "clone", "update", "pnpm",
   "install", "store", "build", "status", "diff", "reset", "verify"}
EarlyErrors == EarlySteps \cup {"stillDirty"}

\* C39: a run of update-volume that fails at a step up to and including
\* the clean-tree verification leaves the published BaseImage as it was.
\* No step taken while main is in one of these steps, and no step of a run
\* that has failed in one of them, changes the snapshot or the Forks or
\* makes a call of step 9: neither the cleanup of the Forks, nor the
\* deletion of the snapshot, nor the creation of a snapshot is attempted.
C39_EarlyFailureLeavesBaseImage ==
  [][/\ rpc \in EarlySteps =>
          (snapshot' = snapshot /\ forks' = forks /\ refreshLog' = <<>>)
     /\ rerr' \in EarlyErrors =>
          /\ snapshot' = snapshot
          /\ forks' = forks
          /\ refreshLog' = <<>>
          /\ attempt' = 0
          /\ leftover' = {}
          /\ rpc' \in {"catch", "exit"}]_vars

\* C39: the first run published the BaseImage; the second run failed in
\* the build and ended with status 1, the BaseImage of the first run
\* still on the platform and no call of step 9 made.
C39_Witness ==
  /\ runNo = 2
  /\ snapshot # Null
  /\ snapshot[1].run = 1
  /\ rerr = "build"
  /\ rpc = "exit"
  /\ rexit = 1
  /\ refreshLog = <<>>

\* The positions of main inside step 9 and after it.
Step9 ==
  {"getSnapshot", "listForks", "deleteForks", "deleteSnapshot",
   "createSnapshot", "done"}

\* C40: update-volume takes the new snapshot only after its build sandbox
\* has been killed.  In every run the kill precedes the deletion of the old
\* snapshot and the creation of the new one: while main is in step 9, and
\* whenever a call of step 9 has been made or the run has published its
\* snapshot, the build sandbox is killed, never live.
C40_SnapshotAfterKill ==
  /\ rpc \in Step9 => buildSandbox = "killed"
  /\ refreshLog # <<>> => buildSandbox = "killed"
  /\ (snapshot # Null /\ snapshot[1].run = runNo) => buildSandbox = "killed"

\* C40: a run that killed its build sandbox, deleted the old snapshot,
\* created the new one and ended with status 0.
C40_Witness ==
  /\ buildSandbox = "killed"
  /\ SnapshotDeleted
  /\ snapshot # Null
  /\ snapshot[1].run = runNo
  /\ rpc = "exit"
  /\ rexit = 0
====
